---------------------------- MODULE Spec2Model ----------------------------
(***************************************************************************)
(* Model of the uShell engine: the line buffer (InputBuffer), the circular *)
(* history store (History), the ANSI key decoder (AnsiKeyParser) and the   *)
(* autocomplete engine (Autocomplete), together with the parser handlers   *)
(* that compose them.  Characters and bytes are their numeric codes.       *)
(***************************************************************************)
EXTENDS Integers, Sequences, FiniteSets, TLC

VARIABLES
    buffer,        \* InputBuffer<IML>: [buffer, length, cursor_pos]
    history,       \* History<HTC>: [data, data_head, entry_oldest, entry_size, current_index]
    key_parser,    \* AnsiKeyParser: [escape_buffer, in_escape]
    autocomplete,  \* Autocomplete<NAC, FNL>: [lazy, candidates, filtered, input, tab_index, first_char_loaded]
    pushed,        \* observer: contents of the retained pushes, oldest first
    scen,          \* observer: [pure, ups, esc_age] bookkeeping of the run so far
    last,          \* observer: the last operation, its argument and its result
    shell,         \* ShellCtx and what it caused: [pending_key, log, calls, halted, exited, late, taken, decoded, handled]
    app,           \* the application: [flavour, input, script, rdr, rx_queue, queued, shell_pending, spawned, pc]
    uart           \* the TX side of uart_hal: [init, tx_buffer, txeie, txe, wire, accepted, wr_pc, wr_bytes]

vars == <<buffer, history, key_parser, autocomplete, pushed, scen, last, shell, app, uart>>

-----------------------------------------------------------------------------
(* Bounds of the model *)

\* Input Maximum Length, the capacity of the line buffer
IML == 3

\* History Total Capacity, in bytes
HTC == 11

\* Cap of the observer counters
MaxCount == 3

-----------------------------------------------------------------------------
(* Character codes *)

NUL == 0

\* the ASCII / Latin-1 codes of the characters the model uses
chr == [space |-> 32, a |-> 97, b |-> 98, e |-> 101, h |-> 104, i |-> 105, l |-> 108,
        n |-> 110, p |-> 112, t |-> 116, x |-> 120, wide |-> 233]

Min(x, y) == IF x < y THEN x ELSE y

\* all sequences over S of length 0..n
RECURSIVE SeqsUpTo(_, _)
SeqsUpTo(S, n) ==
    IF n = 0 THEN {<<>>}
    ELSE LET shorter == SeqsUpTo(S, n - 1)
         IN  shorter \cup {Append(s, c) : s \in {t \in shorter : Len(t) = n - 1}, c \in S}

\* char::len_utf8 for the characters of the model
len_utf8(c) == IF c < 128 THEN 1 ELSE 2

\* str::len: the length of a string in bytes
RECURSIVE str_len(_)
str_len(s) == IF s = <<>> THEN 0 ELSE len_utf8(Head(s)) + str_len(Tail(s))

\* char::is_whitespace for the characters of the model
is_whitespace(c) == c \in {chr.space, 9, 10, 13}

\* str::trim: leading and trailing whitespace removed
RECURSIVE trim_start(_)
trim_start(s) ==
    IF s # <<>> /\ is_whitespace(Head(s)) THEN trim_start(Tail(s)) ELSE s

RECURSIVE trim_end(_)
trim_end(s) ==
    IF s # <<>> /\ is_whitespace(s[Len(s)]) THEN trim_end(SubSeq(s, 1, Len(s) - 1)) ELSE s

trim(s) == trim_end(trim_start(s))

-----------------------------------------------------------------------------
(* InputBuffer *)

\* an empty InputBuffer<n>; the const generic is the size of the array the value carries
InputBuffer_sized(n) == [buffer |-> [i \in 0..(n - 1) |-> NUL], length |-> 0, cursor_pos |-> 0]

InputBuffer_new == InputBuffer_sized(IML)

\* the const generic IML of the buffer b
capacity(b) == Cardinality(DOMAIN b.buffer)

\* insert: returns <<buffer, inserted>>
InputBuffer_insert(b, ch) ==
    IF b.length >= capacity(b) THEN <<b, FALSE>>
    ELSE <<[buffer |-> [i \in DOMAIN b.buffer |->
                          IF i = b.cursor_pos THEN ch
                          ELSE IF i > b.cursor_pos /\ i <= b.length THEN b.buffer[i - 1]
                          ELSE b.buffer[i]],
            length |-> b.length + 1,
            cursor_pos |-> b.cursor_pos + 1], TRUE>>

\* backspace: returns <<buffer, deleted>>
InputBuffer_backspace(b) ==
    IF b.cursor_pos = 0 THEN <<b, FALSE>>
    ELSE <<[buffer |-> [i \in DOMAIN b.buffer |->
                          IF i = b.length - 1 THEN NUL
                          ELSE IF i >= b.cursor_pos - 1 /\ i < b.length - 1 THEN b.buffer[i + 1]
                          ELSE b.buffer[i]],
            length |-> b.length - 1,
            cursor_pos |-> b.cursor_pos - 1], TRUE>>

InputBuffer_move_left(b) ==
    IF b.cursor_pos > 0 THEN [b EXCEPT !.cursor_pos = b.cursor_pos - 1] ELSE b

InputBuffer_move_right(b) ==
    IF b.cursor_pos < b.length THEN [b EXCEPT !.cursor_pos = b.cursor_pos + 1] ELSE b

InputBuffer_move_home(b) == [b EXCEPT !.cursor_pos = 0]

InputBuffer_move_end(b) == [b EXCEPT !.cursor_pos = b.length]

InputBuffer_delete_at_cursor(b) ==
    IF b.cursor_pos < b.length
    THEN [b EXCEPT !.buffer = [i \in DOMAIN b.buffer |->
                                 IF i = b.length - 1 THEN NUL
                                 ELSE IF i >= b.cursor_pos /\ i < b.length - 1 THEN b.buffer[i + 1]
                                 ELSE b.buffer[i]],
                   !.length = b.length - 1]
    ELSE b

\* delete: returns <<buffer, deleted>>
InputBuffer_delete(b) ==
    IF b.cursor_pos < b.length THEN <<InputBuffer_delete_at_cursor(b), TRUE>> ELSE <<b, FALSE>>

InputBuffer_clear(b) ==
    [buffer |-> [i \in DOMAIN b.buffer |-> IF i < b.length THEN NUL ELSE b.buffer[i]],
     length |-> 0,
     cursor_pos |-> 0]

\* to_string: the first `length` characters
InputBuffer_to_string(b) == [i \in 1..b.length |-> b.buffer[i - 1]]

\* a variant of overwrite that forgets to truncate the new length to IML
InputBuffer_overwrite_notrunc(b, input) ==
    LET new_len == str_len(input)
        nchars  == Min(Len(input), capacity(b))
    IN  [buffer |-> [i \in DOMAIN b.buffer |->
                       IF i >= new_len /\ i < b.length THEN NUL
                       ELSE IF i < nchars THEN input[i + 1]
                       ELSE b.buffer[i]],
         length |-> new_len,
         cursor_pos |-> new_len]

InputBuffer_overwrite(b, input) ==
    LET new_len == Min(str_len(input), capacity(b))
        nchars  == Min(Len(input), capacity(b))
    IN  [buffer |-> [i \in DOMAIN b.buffer |->
                       IF i >= new_len /\ i < b.length THEN NUL
                       ELSE IF i < nchars THEN input[i + 1]
                       ELSE b.buffer[i]],
         length |-> new_len,
         cursor_pos |-> new_len]

InputBuffer_delete_to_start(b) ==
    IF b.cursor_pos = 0 THEN b
    ELSE LET shift == b.length - b.cursor_pos
         IN  [buffer |-> [i \in DOMAIN b.buffer |->
                            IF i < shift THEN b.buffer[b.cursor_pos + i]
                            ELSE IF i < b.length THEN NUL
                            ELSE b.buffer[i]],
              length |-> shift,
              cursor_pos |-> 0]

InputBuffer_delete_to_end(b) ==
    IF b.cursor_pos >= b.length THEN b
    ELSE [b EXCEPT !.buffer = [i \in DOMAIN b.buffer |->
                                 IF i >= b.cursor_pos /\ i < b.length THEN NUL ELSE b.buffer[i]],
                   !.length = b.cursor_pos]

-----------------------------------------------------------------------------
(* History *)

\* 2 bytes leading + 2 bytes trailing length
METADATA_SIZE == 4

History_new ==
    [data |-> [i \in 0..(HTC - 1) |-> 0],
     data_head |-> 0,
     entry_oldest |-> 0,
     entry_size |-> 0,
     current_index |-> 0]

\* big-endian u16 at pos
read_length_at(h, pos) == h.data[pos] * 256 + h.data[(pos + 1) % HTC]

\* the data array with a big-endian u16 written at pos
write_length_at(data, pos, len) ==
    [[data EXCEPT ![pos] = len \div 256] EXCEPT ![(pos + 1) % HTC] = len % 256]

entry_total_size(data_len) == data_len + METADATA_SIZE

\* a variant of find_next_entry_pos that forgets the wrap around the array end
find_next_entry_pos_nowrap(h, pos) ==
    Min(pos + entry_total_size(read_length_at(h, pos)), HTC - 1)

find_next_entry_pos(h, pos) ==
    (pos + entry_total_size(read_length_at(h, pos))) % HTC

\* the position reached from pos after n hops
RECURSIVE walk(_, _, _)
walk(h, pos, n) == IF n = 0 THEN pos ELSE walk(h, find_next_entry_pos(h, pos), n - 1)

\* the loop of calculate_used_space over n entries from pos
RECURSIVE used_from(_, _, _)
used_from(h, pos, n) ==
    IF n = 0 THEN 0
    ELSE entry_total_size(read_length_at(h, pos))
         + used_from(h, find_next_entry_pos(h, pos), n - 1)

\* a variant of calculate_used_space that counts the data bytes only
calculate_used_space_nometa(h) ==
    IF h.entry_size = 0 THEN 0
    ELSE used_from(h, h.entry_oldest, h.entry_size) - METADATA_SIZE * h.entry_size

calculate_used_space(h) ==
    IF h.entry_size = 0 THEN 0 ELSE used_from(h, h.entry_oldest, h.entry_size)

get_free_space(h) == HTC - calculate_used_space(h)

\* the data bytes of the entry that starts at pos
entry_bytes_at(h, pos) ==
    LET len      == read_length_at(h, pos)
        data_pos == (pos + 2) % HTC
    IN  [i \in 1..len |-> h.data[(data_pos + i - 1) % HTC]]

\* the loop of is_duplicate over n entries from pos
RECURSIVE dup_from(_, _, _, _, _)
dup_from(h, pos, n, bytes, len) ==
    IF n = 0 THEN FALSE
    ELSE LET entry_len == read_length_at(h, pos)
             data_pos  == (pos + 2) % HTC
             is_match  == \A j \in 1..len : h.data[(data_pos + j - 1) % HTC] = bytes[j]
         IN  IF entry_len = len /\ is_match THEN TRUE
             ELSE dup_from(h, find_next_entry_pos(h, pos), n - 1, bytes, len)

\* a variant of is_duplicate that stops after the oldest entry
is_duplicate_oldest(h, bytes, len) ==
    dup_from(h, h.entry_oldest, Min(1, h.entry_size), bytes, len)

is_duplicate(h, bytes, len) == dup_from(h, h.entry_oldest, h.entry_size, bytes, len)

remove_oldest_entry(h) ==
    IF h.entry_size = 0 THEN h
    ELSE LET size == entry_total_size(read_length_at(h, h.entry_oldest))
             left == h.entry_size - 1
         IN  IF left = 0
             THEN [h EXCEPT !.data_head = 0, !.entry_oldest = 0, !.entry_size = 0,
                            !.current_index = 0]
             ELSE [h EXCEPT !.entry_oldest = (h.entry_oldest + size) % HTC,
                            !.entry_size = left,
                            !.current_index = IF h.current_index >= left THEN left - 1
                                              ELSE h.current_index]

\* a variant of the eviction loop that also evicts when the room is exactly enough
RECURSIVE evict_until_fits_le(_, _, _)
evict_until_fits_le(h, used, needed) ==
    IF h.entry_size > 0 /\ (HTC - used) <= needed
    THEN evict_until_fits_le(remove_oldest_entry(h),
                             used - entry_total_size(read_length_at(h, h.entry_oldest)),
                             needed)
    ELSE [h |-> h, used |-> used]

\* the eviction loop of push: [h, used] once there is room or nothing is left
RECURSIVE evict_until_fits(_, _, _)
evict_until_fits(h, used, needed) ==
    IF h.entry_size > 0 /\ (HTC - used) < needed
    THEN evict_until_fits(remove_oldest_entry(h),
                          used - entry_total_size(read_length_at(h, h.entry_oldest)),
                          needed)
    ELSE [h |-> h, used |-> used]

\* the data array with bytes written from pos on, wrapping
RECURSIVE write_bytes_at(_, _, _)
write_bytes_at(data, pos, bytes) ==
    IF bytes = <<>> THEN data
    ELSE write_bytes_at([data EXCEPT ![pos] = Head(bytes)], (pos + 1) % HTC, Tail(bytes))

\* the entry [len][data][len] written at data_head, head and count advanced
entry_written(h, bytes) ==
    LET len == Len(bytes)
        d1  == write_length_at(h.data, h.data_head, len)
        p1  == (h.data_head + 2) % HTC
        d2  == write_bytes_at(d1, p1, bytes)
        p2  == (p1 + len) % HTC
        d3  == write_length_at(d2, p2, len)
    IN  [h EXCEPT !.data = d3,
                  !.data_head = (p2 + 2) % HTC,
                  !.entry_size = h.entry_size + 1]

\* a variant of write_entry that leaves current_index alone
write_entry_keepindex(h, bytes) == entry_written(h, bytes)

\* the tail of push: the entry written, current_index on the newest entry
write_entry(h, bytes) ==
    [entry_written(h, bytes) EXCEPT !.current_index = h.entry_size]

\* a variant of push without the early check of needed against HTC
History_push_late_check(h, s) ==
    LET bytes  == trim(s)
        len    == Len(bytes)
        needed == entry_total_size(len)
    IN  IF len = 0 \/ len > 65535 THEN <<h, FALSE>>
        ELSE IF h.entry_size > 0 /\ is_duplicate(h, bytes, len) THEN <<h, FALSE>>
        ELSE LET ev == evict_until_fits(h, calculate_used_space(h), needed)
             IN  IF (HTC - ev.used) < needed THEN <<ev.h, FALSE>>
                 ELSE <<write_entry(ev.h, bytes), TRUE>>

\* push: returns <<history, added>>
History_push(h, s) ==
    LET bytes  == trim(s)
        len    == Len(bytes)
        needed == entry_total_size(len)
    IN  IF len = 0 \/ len > 65535 THEN <<h, FALSE>>
        ELSE IF needed > HTC THEN <<h, FALSE>>
        ELSE IF h.entry_size > 0 /\ is_duplicate(h, bytes, len) THEN <<h, FALSE>>
        ELSE LET ev == evict_until_fits(h, calculate_used_space(h), needed)
             IN  IF (HTC - ev.used) < needed THEN <<ev.h, FALSE>>
                 ELSE <<write_entry(ev.h, bytes), TRUE>>

\* for_each_byte: [some, bytes], the bytes handed to the callback in order
for_each_byte(h, index) ==
    IF index >= h.entry_size THEN [some |-> FALSE, bytes |-> <<>>]
    ELSE [some |-> TRUE, bytes |-> entry_bytes_at(h, walk(h, h.entry_oldest, index))]

\* get_prev_entry: [h, found, bytes]
get_prev_entry(h) ==
    IF h.entry_size = 0 THEN [h |-> h, found |-> FALSE, bytes |-> <<>>]
    ELSE LET idx == IF h.current_index = 0 THEN h.entry_size - 1 ELSE h.current_index - 1
             h2  == [h EXCEPT !.current_index = idx]
             r   == for_each_byte(h2, idx)
         IN  [h |-> h2, found |-> r.some, bytes |-> r.bytes]

\* get_next_entry: [h, found, bytes]
get_next_entry(h) ==
    IF h.entry_size = 0 THEN [h |-> h, found |-> FALSE, bytes |-> <<>>]
    ELSE LET idx == (h.current_index + 1) % h.entry_size
             h2  == [h EXCEPT !.current_index = idx]
             r   == for_each_byte(h2, idx)
         IN  [h |-> h2, found |-> r.some, bytes |-> r.bytes]

\* a variant of set_index that takes any index
History_set_index_nocheck(h, index) == [h EXCEPT !.current_index = index]

History_set_index(h, index) ==
    IF index < h.entry_size THEN [h EXCEPT !.current_index = index] ELSE h

\* a variant of clear that rewinds the store and keeps the entry count
History_clear_keep_count(h) ==
    [h EXCEPT !.data_head = 0, !.entry_oldest = 0, !.current_index = 0]

History_clear(h) ==
    [h EXCEPT !.data_head = 0, !.entry_oldest = 0, !.entry_size = 0, !.current_index = 0]

\* the stored entries, oldest first, as for_each_byte reads them
Entries(h) == [i \in 1..h.entry_size |-> for_each_byte(h, i - 1).bytes]

-----------------------------------------------------------------------------
(* InputParser handlers that load a history entry into the line buffer *)

\* the callback |byte| buffer.insert(byte as char), applied until it returns false
RECURSIVE insert_each(_, _)
insert_each(b, bytes) ==
    IF bytes = <<>> THEN b
    ELSE LET r == InputBuffer_insert(b, Head(bytes))
         IN  IF r[2] THEN insert_each(r[1], Tail(bytes)) ELSE r[1]

\* handle_up: [buffer, history, found]
handle_up(b, h) ==
    LET r == get_prev_entry(h)
    IN  [buffer |-> insert_each(InputBuffer_clear(b), r.bytes), history |-> r.h,
         found |-> r.found]

\* handle_down: [buffer, history, found]
handle_down(b, h) ==
    LET r == get_next_entry(h)
    IN  [buffer |-> insert_each(InputBuffer_clear(b), r.bytes), history |-> r.h,
         found |-> r.found]

-----------------------------------------------------------------------------
(* AnsiKeyParser *)

ESC == 27

\* capacity of escape_buffer
ESCAPE_BUFFER_CAP == 8

NoKey == [k |-> "None", c |-> 0]
KeyOf(name) == [k |-> name, c |-> 0]
CharKey(c) == [k |-> "Char", c |-> c]

\* heapless Vec::push: refused when the vector is full
vec_push(v, x, cap) == IF Len(v) >= cap THEN v ELSE Append(v, x)

\* try_complete_escape: [kp, key]
try_complete_escape(kp) ==
    LET buf   == kp.escape_buffer
        reset == [escape_buffer |-> <<>>, in_escape |-> FALSE]
    IN  IF Len(buf) >= 3 /\ buf[1] = ESC /\ buf[2] = 91
        THEN LET result ==
                     CASE buf[3] = 65 -> KeyOf("ArrowUp")
                       [] buf[3] = 66 -> KeyOf("ArrowDown")
                       [] buf[3] = 67 -> KeyOf("ArrowRight")
                       [] buf[3] = 68 -> KeyOf("ArrowLeft")
                       [] buf[3] = 72 -> KeyOf("Home")
                       [] buf[3] = 70 -> KeyOf("End")
                       [] buf[3] = 90 -> KeyOf("ShiftTab")
                       [] buf[3] \in 49..54 ->
                            IF Len(buf) >= 4 /\ buf[4] = 126
                            THEN CASE buf[3] = 49 -> KeyOf("Home")
                                   [] buf[3] = 50 -> KeyOf("Insert")
                                   [] buf[3] = 51 -> KeyOf("Delete")
                                   [] buf[3] = 52 -> KeyOf("End")
                                   [] buf[3] = 53 -> KeyOf("PageUp")
                                   [] OTHER       -> KeyOf("PageDown")
                            ELSE NoKey
                       [] OTHER -> CharKey(buf[3])
             IN  [kp |-> IF result # NoKey THEN reset ELSE kp, key |-> result]
        ELSE IF Len(buf) >= 4 THEN [kp |-> reset, key |-> NoKey]
        ELSE [kp |-> kp, key |-> NoKey]

\* a variant of parse_byte that takes only 0x08 for Backspace
parse_byte_one_backspace(kp, byte) ==
    IF byte = ESC
    THEN [kp |-> [escape_buffer |-> <<byte>>, in_escape |-> TRUE], key |-> NoKey]
    ELSE IF kp.in_escape
    THEN try_complete_escape(
             [kp EXCEPT !.escape_buffer = vec_push(kp.escape_buffer, byte, ESCAPE_BUFFER_CAP)])
    ELSE [kp |-> kp,
          key |-> CASE byte = 21 -> KeyOf("CtrlU")
                    [] byte = 11 -> KeyOf("CtrlK")
                    [] byte = 4  -> KeyOf("CtrlD")
                    [] byte = 14 -> KeyOf("CtrlN")
                    [] byte = 16 -> KeyOf("CtrlP")
                    [] byte \in {13, 10} -> KeyOf("Enter")
                    [] byte = 9 -> KeyOf("Tab")
                    [] byte = 8 -> KeyOf("Backspace")
                    [] byte >= 32 /\ byte < 127 -> CharKey(byte)
                    [] OTHER -> NoKey]

\* parse_byte: [kp, key]
parse_byte(kp, byte) ==
    IF byte = ESC
    THEN [kp |-> [escape_buffer |-> <<byte>>, in_escape |-> TRUE], key |-> NoKey]
    ELSE IF kp.in_escape
    THEN try_complete_escape(
             [kp EXCEPT !.escape_buffer = vec_push(kp.escape_buffer, byte, ESCAPE_BUFFER_CAP)])
    ELSE [kp |-> kp,
          key |-> CASE byte = 21 -> KeyOf("CtrlU")
                    [] byte = 11 -> KeyOf("CtrlK")
                    [] byte = 4  -> KeyOf("CtrlD")
                    [] byte = 14 -> KeyOf("CtrlN")
                    [] byte = 16 -> KeyOf("CtrlP")
                    [] byte \in {13, 10} -> KeyOf("Enter")
                    [] byte = 9 -> KeyOf("Tab")
                    [] byte \in {127, 8} -> KeyOf("Backspace")
                    [] byte >= 32 /\ byte < 127 -> CharKey(byte)
                    [] OTHER -> NoKey]

-----------------------------------------------------------------------------
(* Autocomplete *)

\* the registered command names: alpha, alpine, beta
Commands ==
    << <<chr.a, chr.l, chr.p, chr.h, chr.a>>,
       <<chr.a, chr.l, chr.p, chr.i, chr.n, chr.e>>,
       <<chr.b, chr.e, chr.t, chr.a>> >>

RECURSIVE MaxLen(_)
MaxLen(q) == IF q = <<>> THEN 0
             ELSE LET m == MaxLen(Tail(q)) IN IF Len(Head(q)) > m THEN Len(Head(q)) ELSE m

\* MAX_FUNCTION_NAME_LEN: the longest command name plus one
FNL == MaxLen(Commands) + 1

\* NUM_COMMANDS
NAC == Len(Commands)

\* the closure handed to the lazy update_input: the names that start with c
get_commands_for_char(c) ==
    LET StartsWithC(name) == name # <<>> /\ name[1] = c
    IN  SelectSeq(Commands, StartsWithC)

\* str::starts_with
starts_with(s, prefix) ==
    Len(prefix) <= Len(s) /\ SubSeq(s, 1, Len(prefix)) = prefix

\* heapless String<FNL>::push_str: all of the string or nothing
push_str(str, add) == IF str_len(str) + str_len(add) > FNL THEN str ELSE str \o add

\* heapless String<FNL>::push
push_char(str, c) == IF str_len(str) + len_utf8(c) > FNL THEN str ELSE Append(str, c)

\* the inner while loop of longest_common_prefix
RECURSIVE shrink_to_prefix_of(_, _)
shrink_to_prefix_of(prefix, s) ==
    IF starts_with(s, prefix) \/ prefix = <<>> THEN prefix
    ELSE shrink_to_prefix_of(SubSeq(prefix, 1, Len(prefix) - 1), s)

RECURSIVE lcp_fold(_, _)
lcp_fold(prefix, strings) ==
    IF strings = <<>> THEN prefix
    ELSE lcp_fold(shrink_to_prefix_of(prefix, Head(strings)), Tail(strings))

\* a variant of longest_common_prefix that returns the first string
longest_common_prefix_first(strings) ==
    IF strings = <<>> THEN <<>> ELSE push_str(<<>>, strings[1])

longest_common_prefix(strings) ==
    IF strings = <<>> THEN <<>>
    ELSE push_str(<<>>, lcp_fold(strings[1], Tail(strings)))

\* Autocomplete::new() of the lazy engine
Autocomplete_new_lazy ==
    [lazy |-> TRUE, candidates |-> <<>>, filtered |-> <<>>, input |-> <<>>,
     tab_index |-> 0, first_char_loaded |-> <<>>]

\* Autocomplete::new(candidates) of the engine InputParser::new fills
Autocomplete_new(candidates) ==
    [lazy |-> FALSE, candidates |-> candidates, filtered |-> <<>>, input |-> <<>>,
     tab_index |-> 0, first_char_loaded |-> <<>>]

\* the auto-completion tail shared by both update_input: input of the filtered list
apply_completion(ac) ==
    IF Len(ac.filtered) = 1
    THEN [ac EXCEPT !.tab_index = 0,
                    !.input = push_char(push_str(<<>>, ac.filtered[1]), chr.space)]
    ELSE IF Len(ac.filtered) > 1
    THEN [ac EXCEPT !.tab_index = 0, !.input = longest_common_prefix(ac.filtered)]
    ELSE [ac EXCEPT !.tab_index = 0]

\* the candidates that start with the input, up to NAC of them
filter_candidates(candidates, input_str) ==
    LET Matches(c) == starts_with(c, input_str)
        all == SelectSeq(candidates, Matches)
    IN  SubSeq(all, 1, Min(Len(all), NAC))

\* update_input of the lazy engine (ushell2)
update_input_lazy(ac, new_input) ==
    LET input_str == push_str(<<>>, new_input)
    IN  IF input_str = <<>>
        THEN [ac EXCEPT !.input = <<>>, !.filtered = <<>>, !.candidates = <<>>,
                        !.first_char_loaded = <<>>, !.tab_index = 0]
        ELSE LET first_char == input_str[1]
                 loaded == get_commands_for_char(first_char)
                 cands  == IF ac.first_char_loaded # <<first_char>>
                           THEN SubSeq(loaded, 1, Min(Len(loaded), NAC))
                           ELSE ac.candidates
             IN  apply_completion(
                     [ac EXCEPT !.input = input_str,
                                !.candidates = cands,
                                !.first_char_loaded = <<first_char>>,
                                !.filtered = filter_candidates(cands, input_str)])

\* update_input of the engine the parser owns (ushell_input)
update_input(ac, new_input) ==
    apply_completion([ac EXCEPT !.input = new_input,
                                !.filtered = filter_candidates(ac.candidates, new_input)])

\* a variant of cycle_forward that stops at the last candidate
cycle_forward_saturating(ac) ==
    IF ac.filtered = <<>> THEN ac
    ELSE LET idx == Min(ac.tab_index + 1, Len(ac.filtered) - 1)
         IN  [ac EXCEPT !.tab_index = idx,
                        !.input = push_char(push_str(<<>>, ac.filtered[idx + 1]), chr.space)]

\* cycle_forward, the same in both engines
cycle_forward(ac) ==
    IF ac.filtered = <<>> THEN ac
    ELSE LET idx == (ac.tab_index + 1) % Len(ac.filtered)
         IN  [ac EXCEPT !.tab_index = idx,
                        !.input = push_char(push_str(<<>>, ac.filtered[idx + 1]), chr.space)]

\* cycle_backward, the same in both engines
cycle_backward(ac) ==
    IF ac.filtered = <<>> THEN ac
    ELSE LET idx == IF ac.tab_index = 0 THEN Len(ac.filtered) - 1 ELSE ac.tab_index - 1
         IN  [ac EXCEPT !.tab_index = idx,
                        !.input = push_char(push_str(<<>>, ac.filtered[idx + 1]), chr.space)]

-----------------------------------------------------------------------------
(* Text helpers: strings of the source written as sequences of codes *)

\* the printable ASCII characters, 0x20 .. 0x7E in order (the double quote, the
\* backslash and the grave accent are written by name)
AsciiTable ==
    <<" ", "!", "<quote>", "#", "$", "%", "&", "'", "(", ")", "*", "+", ",", "-", ".", "/",
      "0", "1", "2", "3", "4", "5", "6", "7", "8", "9", ":", ";", "<", "=", ">", "?",
      "@", "A", "B", "C", "D", "E", "F", "G", "H", "I", "J", "K", "L", "M", "N", "O",
      "P", "Q", "R", "S", "T", "U", "V", "W", "X", "Y", "Z", "[", "<backslash>", "]", "^", "_",
      "<grave>", "a", "b", "c", "d", "e", "f", "g", "h", "i", "j", "k", "l", "m", "n", "o",
      "p", "q", "r", "s", "t", "u", "v", "w", "x", "y", "z", "{", "|", "}", "~">>

\* the code of a printable ASCII character
ascii(c) == 31 + (CHOOSE i \in 1..Len(AsciiTable) : AsciiTable[i] = c)

\* a string literal of the source, given character by character
Str(s) == [i \in 1..Len(s) |-> ascii(s[i])]

\* Display of a str: how a sequence of codes prints
RECURSIVE Shown(_)
Shown(s) ==
    IF s = <<>> THEN ""
    ELSE (IF Head(s) \in 32..126 THEN AsciiTable[Head(s) - 31] ELSE "<" \o ToString(Head(s)) \o ">")
         \o Shown(Tail(s))

\* str::is_char_boundary(i) for a byte index i
RECURSIVE is_char_boundary(_, _)
is_char_boundary(s, i) ==
    IF i = 0 THEN TRUE
    ELSE IF s = <<>> THEN FALSE
    ELSE IF i < len_utf8(Head(s)) THEN FALSE
    ELSE is_char_boundary(Tail(s), i - len_utf8(Head(s)))

\* the characters of s that lie before the byte index i (a char boundary)
RECURSIVE chars_before(_, _)
chars_before(s, i) ==
    IF i <= 0 \/ s = <<>> THEN <<>>
    ELSE <<Head(s)>> \o chars_before(Tail(s), i - len_utf8(Head(s)))

-----------------------------------------------------------------------------
(* The command dispatcher generated by generate_commands_dispatcher! *)

\* the table ENTRIES, sorted by name: commands of ushell_usercode with their
\* parameter descriptors (v: void, t: bool, b: i8, D: u32)
ENTRIES ==
    << [name |-> Str(<<"i", "n", "i", "t">>), spec |-> <<"v">>],
       [name |-> Str(<<"l", "e", "d">>),      spec |-> <<"t">>],
       [name |-> Str(<<"r", "e", "a", "d">>), spec |-> <<"b", "D">>] >>

\* the arity of a descriptor: "v" takes no argument
arity_u8(spec) == IF spec = <<"v">> THEN 0 ELSE Len(spec) % 256

RECURSIVE max_arity(_)
max_arity(entries) ==
    IF entries = <<>> THEN 0
    ELSE LET m == max_arity(Tail(entries))
             a == arity_u8(Head(entries).spec)
         IN  IF a > m THEN a ELSE m

MAX_ARITY == max_arity(ENTRIES)

\* DispatchError, with the arity WrongArity carries
DispatchError(kind) == [kind |-> kind, expected |-> 0]
WrongArity(expected) == [kind |-> "WrongArity", expected |-> expected]

format_error(err) ==
    IF err.kind = "WrongArity"
    THEN "WrongArity(expected=" \o ToString(err.expected) \o ")"
    ELSE err.kind

\* ASCII space or tab
is_space(b) == b = 32 \/ b = 9

RECURSIVE skip_spaces(_, _)
skip_spaces(line, i) ==
    IF i <= Len(line) /\ is_space(line[i]) THEN skip_spaces(line, i + 1) ELSE i

RECURSIVE skip_non_spaces(_, _)
skip_non_spaces(line, i) ==
    IF i <= Len(line) /\ ~is_space(line[i]) THEN skip_non_spaces(line, i + 1) ELSE i

\* a variant of the scan of a quoted token that also ends at a space
RECURSIVE skip_to_quote_or_space(_, _)
skip_to_quote_or_space(line, i) ==
    IF i <= Len(line) /\ line[i] # 34 /\ ~is_space(line[i])
    THEN skip_to_quote_or_space(line, i + 1) ELSE i

RECURSIVE skip_to_quote(_, _)
skip_to_quote(line, i) ==
    IF i <= Len(line) /\ line[i] # 34 THEN skip_to_quote(line, i + 1) ELSE i

\* a variant that stores a token without its last byte
store_token_chopped(out, token, cap) ==
    IF Len(out) < cap THEN Append(out, SubSeq(token, 1, Len(token) - 1)) ELSE out

\* out[n] = token; n += 1, only while the buffer of the caller has room
store_token(out, token, cap) == IF Len(out) < cap THEN Append(out, token) ELSE out

\* the outer loop of tokenize from index i (1-based), with the tokens stored so far
RECURSIVE tokenize_from(_, _, _, _)
tokenize_from(line, i0, out, cap) ==
    LET i == skip_spaces(line, i0)
    IN  IF i > Len(line) THEN out
        ELSE IF line[i] = 34
        THEN LET start == i + 1
                 close == skip_to_quote(line, start)
                 after == IF close <= Len(line) THEN close + 1 ELSE close
             IN  tokenize_from(line, skip_non_spaces(line, after),
                               store_token(out, SubSeq(line, start, close - 1), cap), cap)
        ELSE LET stop == skip_non_spaces(line, i)
             IN  tokenize_from(line, stop, store_token(out, SubSeq(line, i, stop - 1), cap), cap)

\* tokenize: [ok, toks]; Empty when no token was produced
tokenize(line, cap) ==
    LET out == tokenize_from(line, 1, <<>>, cap)
    IN  [ok |-> out # <<>>, toks |-> out]

\* char::to_digit: the value of a digit in the radix, radix or more when it is none
to_digit(c) ==
    IF c \in 48..57 THEN c - 48
    ELSE IF c \in 97..122 THEN c - 97 + 10
    ELSE IF c \in 65..90 THEN c - 65 + 10
    ELSE 36

\* the value of a run of digits, -1 when one of them is not a digit of the radix
RECURSIVE digits_value(_, _, _)
digits_value(digits, radix, acc) ==
    IF digits = <<>> THEN acc
    ELSE IF to_digit(Head(digits)) >= radix THEN -1
    ELSE digits_value(Tail(digits), radix, acc * radix + to_digit(Head(digits)))

\* whether v is a value of the integer type with that signedness and width
fits_int(v, signed, bits) ==
    IF signed THEN -(2 ^ (bits - 1)) <= v /\ v <= 2 ^ (bits - 1) - 1
    ELSE v >= 0 /\ (v \div 2 ^ (bits \div 2)) \div 2 ^ (bits - bits \div 2) = 0

\* <int>::from_str_radix: [some, v]
from_str_radix(src, radix, signed, bits) ==
    LET checked(mag, v) ==
            IF mag = -1 \/ ~fits_int(v, signed, bits) THEN [some |-> FALSE, v |-> 0]
            ELSE [some |-> TRUE, v |-> v]
        valued(is_negative, mag) == checked(mag, IF is_negative THEN -mag ELSE mag)
        digits(is_negative) ==
            valued(is_negative,
                   digits_value(IF src[1] = 43 \/ is_negative THEN Tail(src) ELSE src, radix, 0))
    IN  IF src = <<>> THEN [some |-> FALSE, v |-> 0]
        ELSE IF src[1] \in {43, 45} /\ Len(src) = 1 THEN [some |-> FALSE, v |-> 0]
        ELSE digits(src[1] = 45 /\ signed)

\* the parsers parse_int! generates: trim, then 0x / 0o / 0b or decimal
parse_int(s0, signed, bits) ==
    LET radix_of(s) ==
            IF starts_with(s, Str(<<"0", "x">>)) THEN 16
            ELSE IF starts_with(s, Str(<<"0", "o">>)) THEN 8
            ELSE IF starts_with(s, Str(<<"0", "b">>)) THEN 2
            ELSE 10
        parsed(s, radix) ==
            from_str_radix(IF radix = 10 THEN s ELSE SubSeq(s, 3, Len(s)), radix, signed, bits)
        trimmed(s) == parsed(s, radix_of(s))
    IN  trimmed(trim(s0))

\* parse_bool: [some, v]
parse_bool(s) ==
    IF s \in {Str(<<"1">>), Str(<<"t", "r", "u", "e">>), Str(<<"T", "r", "u", "e">>),
              Str(<<"T", "R", "U", "E">>)}
    THEN [some |-> TRUE, v |-> TRUE]
    ELSE IF s \in {Str(<<"0">>), Str(<<"f", "a", "l", "s", "e">>),
                   Str(<<"F", "a", "l", "s", "e">>), Str(<<"F", "A", "L", "S", "E">>)}
    THEN [some |-> TRUE, v |-> FALSE]
    ELSE [some |-> FALSE, v |-> FALSE]

\* one statement of a generated parser: the argument of descriptor character d
parse_arg(d, token) ==
    LET parsed(r, kind) == [ok |-> r.some, v |-> r.v, err |-> DispatchError(kind)]
    IN  CASE d = "t" -> parsed(parse_bool(token), "BadBool")
          [] d = "b" -> parsed(parse_int(token, TRUE, 8), "BadSigned")
          [] d = "D" -> parsed(parse_int(token, FALSE, 32), "BadUnsigned")

\* a variant of the generated parser that passes over an argument that does not
\* parse and goes on with the next
RECURSIVE parse_args_lenient(_, _, _)
parse_args_lenient(spec, args, vals) ==
    LET parsed(r) ==
            parse_args_lenient(Tail(spec), Tail(args), IF r.ok THEN Append(vals, r.v) ELSE vals)
    IN  IF spec = <<>> \/ spec = <<"v">>
        THEN [ok |-> TRUE, vals |-> vals, err |-> DispatchError("")]
        ELSE parsed(parse_arg(Head(spec), Head(args)))

\* the generated parser of a descriptor: the arguments in order, stopping at the
\* first that does not parse: [ok, vals, err]
RECURSIVE parse_args(_, _, _)
parse_args(spec, args, vals) ==
    LET parsed(r) ==
            IF ~r.ok THEN [ok |-> FALSE, vals |-> vals, err |-> r.err]
            ELSE parse_args(Tail(spec), Tail(args), Append(vals, r.v))
    IN  IF spec = <<>> \/ spec = <<"v">>
        THEN [ok |-> TRUE, vals |-> vals, err |-> DispatchError("")]
        ELSE parsed(parse_arg(Head(spec), Head(args)))

\* find_entry: the index of the entry with that name, 0 when there is none
find_entry(name) ==
    IF \E i \in 1..Len(ENTRIES) : ENTRIES[i].name = name
    THEN CHOOSE i \in 1..Len(ENTRIES) : ENTRIES[i].name = name
    ELSE 0

\* what a dispatcher returns: Ok or Err(message), the handler invocations it made,
\* and whether it panicked instead of returning
Returned(ok, err, calls) == [ok |-> ok, err |-> err, calls |-> calls, panic |-> FALSE]
Panicked == [ok |-> FALSE, err |-> "", calls |-> <<>>, panic |-> TRUE]

\* a variant of dispatch_with_buf without the arity check: surplus tokens are ignored
dispatch_with_buf_noarity(line, cap) ==
    LET parsed(ent, p) ==
            IF ~p.ok THEN Returned(FALSE, format_error(p.err), <<>>)
            ELSE Returned(TRUE, "", <<[name |-> ENTRIES[ent].name, args |-> p.vals]>>)
        found(t, ent, got_arity) ==
            IF ent = 0
            THEN Returned(FALSE, format_error(DispatchError("UnknownFunction")), <<>>)
            ELSE IF got_arity < arity_u8(ENTRIES[ent].spec)
            THEN Returned(FALSE, format_error(WrongArity(arity_u8(ENTRIES[ent].spec))), <<>>)
            ELSE parsed(ent, parse_args(ENTRIES[ent].spec, Tail(t.toks), <<>>))
        tokenized(t) ==
            IF ~t.ok THEN Returned(FALSE, format_error(DispatchError("Empty")), <<>>)
            ELSE found(t, find_entry(t.toks[1]), (Len(t.toks) - 1) % 65536)
    IN  tokenized(tokenize(line, cap))

\* dispatch_with_buf with a token buffer of cap entries
dispatch_with_buf(line, cap) ==
    LET parsed(ent, p) ==
            IF ~p.ok THEN Returned(FALSE, format_error(p.err), <<>>)
            ELSE Returned(TRUE, "", <<[name |-> ENTRIES[ent].name, args |-> p.vals]>>)
        found(t, ent, got_arity) ==
            IF ent = 0
            THEN Returned(FALSE, format_error(DispatchError("UnknownFunction")), <<>>)
            ELSE IF got_arity # arity_u8(ENTRIES[ent].spec)
            THEN Returned(FALSE, format_error(WrongArity(arity_u8(ENTRIES[ent].spec))), <<>>)
            ELSE parsed(ent, parse_args(ENTRIES[ent].spec, Tail(t.toks), <<>>))
        tokenized(t) ==
            IF ~t.ok THEN Returned(FALSE, format_error(DispatchError("Empty")), <<>>)
            ELSE found(t, find_entry(t.toks[1]), (Len(t.toks) - 1) % 65536)
    IN  tokenized(tokenize(line, cap))

\* a variant of commands::dispatch with a token buffer of 1 + MAX_ARITY tokens
dispatch_tight(line) == dispatch_with_buf(line, 1 + MAX_ARITY)

\* commands::dispatch: the token buffer holds 2 + MAX_ARITY tokens
dispatch(line) == dispatch_with_buf(line, 2 + MAX_ARITY)

-----------------------------------------------------------------------------
(* The shortcut dispatcher generated by generate_shortcuts_dispatcher! *)

\* the prefixes of the shortcut table of ushell_usercode: + . -
ShortcutPrefixes == {ascii("+"), ascii("."), ascii("-")}

\* the two-character keys of the table
ShortcutKeys ==
    {Str(<<"+", "+">>), Str(<<"+", "l">>), Str(<<"+", "m">>), Str(<<"+", "?">>),
     Str(<<"+", "~">>), Str(<<".", ".">>), Str(<<".", "z">>), Str(<<".", "k">>),
     Str(<<"-", ".">>), Str(<<"-", "t">>), Str(<<"-", "u">>), Str(<<"-", "w">>)}

\* is_supported_shortcut: [yes, panic]; &trimmed[0..1] panics unless byte index 1
\* is a char boundary
is_supported_shortcut(input) ==
    LET trimmed == trim(input)
    IN  IF trimmed = <<>> THEN [yes |-> FALSE, panic |-> FALSE]
        ELSE IF ~is_char_boundary(trimmed, 1) THEN [yes |-> FALSE, panic |-> TRUE]
        ELSE [yes |-> trimmed[1] \in ShortcutPrefixes, panic |-> FALSE]

\* a variant of shortcuts::dispatch that passes the rest of the line as it is
shortcuts_dispatch_untrimmed(input) ==
    LET trimmed == trim(input)
    IN  IF str_len(trimmed) >= 2 /\ ~is_char_boundary(trimmed, 2) THEN Panicked
        ELSE LET key   == IF str_len(trimmed) >= 2 THEN chars_before(trimmed, 2) ELSE trimmed
                 param == IF str_len(trimmed) >= 2
                          THEN SubSeq(trimmed, Len(key) + 1, Len(trimmed))
                          ELSE <<>>
             IN  IF key \in ShortcutKeys
                 THEN Returned(TRUE, "", <<[name |-> key, args |-> <<param>>]>>)
                 ELSE Returned(FALSE, "Unknown shortcut: " \o Shown(key), <<>>)

\* shortcuts::dispatch: &trimmed[..2] panics unless byte index 2 is a char boundary
shortcuts_dispatch(input) ==
    LET trimmed == trim(input)
    IN  IF str_len(trimmed) >= 2 /\ ~is_char_boundary(trimmed, 2) THEN Panicked
        ELSE LET key   == IF str_len(trimmed) >= 2 THEN chars_before(trimmed, 2) ELSE trimmed
                 param == IF str_len(trimmed) >= 2
                          THEN trim(SubSeq(trimmed, Len(key) + 1, Len(trimmed)))
                          ELSE <<>>
             IN  IF key \in ShortcutKeys
                 THEN Returned(TRUE, "", <<[name |-> key, args |-> <<param>>]>>)
                 ELSE Returned(FALSE, "Unknown shortcut: " \o Shown(key), <<>>)

-----------------------------------------------------------------------------
(* Command execution: the closure of ShellCtx::step, exec of the runner *)

\* what executing a line did: the dispatcher it went to, the message the
\* dispatcher returned, the outcome messages logged, the handlers invoked, and
\* whether it panicked
Executed(route, err, log, calls, panic) ==
    [route |-> route, err |-> err, log |-> log, calls |-> calls, panic |-> panic]

\* a variant of the closure that logs Success whatever the dispatcher returned
exec_always_success(input) ==
    LET logged(route, r) ==
            IF r.panic THEN Executed(route, "", <<>>, <<>>, TRUE)
            ELSE Executed(route, r.err, <<"Success">>, r.calls, FALSE)
        routed(s) ==
            IF s.panic THEN Executed("none", "", <<>>, <<>>, TRUE)
            ELSE IF s.yes THEN logged("shortcut", shortcuts_dispatch(input))
            ELSE logged("command", dispatch(input))
    IN  routed(is_supported_shortcut(input))

\* the closure |input| of ShellCtx::step, the same as exec of the runner
exec(input) ==
    LET logged(route, r) ==
            IF r.panic THEN Executed(route, "", <<>>, <<>>, TRUE)
            ELSE Executed(route, r.err, <<IF r.ok THEN "Success" ELSE "Error: " \o r.err>>, r.calls, FALSE)
        routed(s) ==
            IF s.panic THEN Executed("none", "", <<>>, <<>>, TRUE)
            ELSE IF s.yes THEN logged("shortcut", shortcuts_dispatch(input))
            ELSE logged("command", dispatch(input))
    IN  routed(is_supported_shortcut(input))

-----------------------------------------------------------------------------
(* InputParser: the key handlers and parse_input *)

\* heapless String<n>::push_str and push: all or nothing
String_push_str(s, add, n) == IF str_len(s) + str_len(add) > n THEN s ELSE s \o add

String_push(s, c, n) == IF str_len(s) + len_utf8(c) > n THEN s ELSE Append(s, c)

\* for c in chars { let _ = s.push(c); }
RECURSIVE push_each(_, _, _)
push_each(s, chars, n) ==
    IF chars = <<>> THEN s ELSE push_each(String_push(s, Head(chars), n), Tail(chars), n)

\* Iterator::take and Iterator::skip over the characters of a string
take(s, n) == SubSeq(s, 1, Min(Len(s), n))

skip(s, n) == SubSeq(s, n + 1, Len(s))

\* collecting characters into a String<n> unwraps every push: it panics when
\* the characters take more than n bytes
collect_panics(chars, n) == str_len(chars) > n

\* str::as_bytes: the UTF-8 bytes of the characters
RECURSIVE as_bytes(_)
as_bytes(s) ==
    IF s = <<>> THEN <<>>
    ELSE (IF Head(s) < 128 THEN <<Head(s)>>
          ELSE <<192 + (Head(s) \div 64), 128 + (Head(s) % 64)>>) \o as_bytes(Tail(s))

\* the fields of InputParser the handlers work on, whether a handler panicked,
\* and what it asked of the renderer besides rendering: "bell",
\* "boundary_marker" or "none"
Parser(b, h, ac) ==
    [buffer |-> b, history |-> h, autocomplete |-> ac, panic |-> FALSE, signal |-> "none"]

\* the names of the command table, the candidates InputParser::new collects
shell_commands == [i \in 1..Len(ENTRIES) |-> ENTRIES[i].name]

\* render_buffer: buffer.to_string() collects the characters into a String<IML>
render_buffer(p) ==
    IF collect_panics(InputBuffer_to_string(p.buffer), capacity(p.buffer))
    THEN [p EXCEPT !.panic = TRUE]
    ELSE p

\* the line rebuilt from the suggestion and the characters beyond the first FNL
suggested(b, suggestion, input_full) ==
    InputBuffer_overwrite(b, push_each(String_push_str(<<>>, suggestion, capacity(b)),
                                       skip(input_full, FNL), capacity(b)))

\* a variant of handle_char that leaves the typed characters as they are
handle_char_literal(p, ch) ==
    LET r == InputBuffer_insert(p.buffer, ch)
        input_full == InputBuffer_to_string(r[1])
        autocomplete_input == take(input_full, FNL)
        ac == update_input(p.autocomplete, autocomplete_input)
    IN  IF ~r[2] THEN render_buffer([p EXCEPT !.signal = "boundary_marker"])
        ELSE IF \/ collect_panics(input_full, capacity(r[1]))
                \/ collect_panics(autocomplete_input, FNL)
        THEN [p EXCEPT !.buffer = r[1], !.panic = TRUE]
        ELSE render_buffer([p EXCEPT !.autocomplete = ac, !.buffer = r[1]])

\* a variant of handle_char that rings the bell when the character does not fit
handle_char_bell(p, ch) ==
    LET r == InputBuffer_insert(p.buffer, ch)
        input_full == InputBuffer_to_string(r[1])
        autocomplete_input == take(input_full, FNL)
        ac == update_input(p.autocomplete, autocomplete_input)
    IN  IF ~r[2] THEN render_buffer([p EXCEPT !.signal = "bell"])
        ELSE IF \/ collect_panics(input_full, capacity(r[1]))
                \/ collect_panics(autocomplete_input, FNL)
        THEN [p EXCEPT !.buffer = r[1], !.panic = TRUE]
        ELSE render_buffer(
                 [p EXCEPT !.autocomplete = ac,
                           !.buffer = IF ac.input # autocomplete_input
                                      THEN suggested(r[1], ac.input, input_full)
                                      ELSE r[1]])

handle_char(p, ch) ==
    LET r == InputBuffer_insert(p.buffer, ch)
        input_full == InputBuffer_to_string(r[1])
        autocomplete_input == take(input_full, FNL)
        ac == update_input(p.autocomplete, autocomplete_input)
    IN  IF ~r[2] THEN render_buffer([p EXCEPT !.signal = "boundary_marker"])
        ELSE IF \/ collect_panics(input_full, capacity(r[1]))
                \/ collect_panics(autocomplete_input, FNL)
        THEN [p EXCEPT !.buffer = r[1], !.panic = TRUE]
        ELSE render_buffer(
                 [p EXCEPT !.autocomplete = ac,
                           !.buffer = IF ac.input # autocomplete_input
                                      THEN suggested(r[1], ac.input, input_full)
                                      ELSE r[1]])

handle_backspace(p) ==
    LET r == InputBuffer_backspace(p.buffer)
        input_full == InputBuffer_to_string(r[1])
    IN  IF ~r[2] THEN render_buffer([p EXCEPT !.signal = "bell"])
        ELSE IF \/ collect_panics(input_full, capacity(r[1]))
                \/ collect_panics(take(input_full, FNL), FNL)
        THEN [p EXCEPT !.buffer = r[1], !.panic = TRUE]
        ELSE render_buffer(
                 [p EXCEPT !.buffer = r[1],
                           !.autocomplete = update_input(p.autocomplete, take(input_full, FNL))])

handle_tab(p, reverse) ==
    LET ac == IF reverse THEN cycle_backward(p.autocomplete) ELSE cycle_forward(p.autocomplete)
        input_full == InputBuffer_to_string(p.buffer)
    IN  IF collect_panics(input_full, capacity(p.buffer))
        THEN [p EXCEPT !.autocomplete = ac, !.panic = TRUE]
        ELSE render_buffer([p EXCEPT !.autocomplete = ac,
                                     !.buffer = suggested(p.buffer, ac.input, input_full)])

\* handle_enter: [p, cmd, pushed]; pushed tells whether history.push was called
handle_enter(p) ==
    LET cmd == InputBuffer_to_string(p.buffer)
        to_history == cmd # <<>> /\ cmd[1] # ascii("#")
    IN  IF collect_panics(cmd, capacity(p.buffer))
        THEN [p |-> [p EXCEPT !.panic = TRUE], cmd |-> cmd, pushed |-> FALSE]
        ELSE [p |-> [p EXCEPT !.history = IF to_history
                                          THEN History_push(p.history, as_bytes(cmd))[1]
                                          ELSE p.history,
                              !.buffer = InputBuffer_clear(p.buffer),
                              !.autocomplete = update_input(p.autocomplete, <<>>)],
              cmd |-> cmd, pushed |-> to_history]

\* handle_hashtag: [p, continue_running, some, cmd, said], (some, cmd) the
\* history line to execute if there is one, said the last message written for
\* a line that is none of q, "", # (for l: "History is empty." or, after the
\* listing, " bytes")
handle_hashtag(p, stripped) ==
    LET none(q, cont, said) ==
            [p |-> q, continue_running |-> cont, some |-> FALSE, cmd |-> <<>>, said |-> said]
        index == from_str_radix(stripped, 10, FALSE, 32)
        entry == for_each_byte(p.history, index.v)
        loaded == insert_each(InputBuffer_clear(p.buffer), entry.bytes)
    IN  IF stripped = Str(<<"q">>) THEN none(p, FALSE, "")
        ELSE IF stripped \in {<<>>, Str(<<"#">>)} THEN none(p, TRUE, "")
        ELSE IF stripped = Str(<<"l">>)
        THEN none(p, TRUE, IF p.history.entry_size = 0 THEN "History is empty." ELSE " bytes")
        ELSE IF stripped = Str(<<"c">>)
        THEN none([p EXCEPT !.history = History_clear(p.history)], TRUE, "History cleared.")
        ELSE IF ~index.some THEN none(p, TRUE, "Unknown hashtag command.")
        ELSE IF ~entry.some
        THEN none([p EXCEPT !.buffer = InputBuffer_clear(p.buffer)], TRUE,
                  "Invalid history index.")
        ELSE IF collect_panics(InputBuffer_to_string(loaded), capacity(loaded))
        THEN none([p EXCEPT !.buffer = loaded, !.panic = TRUE], TRUE, "")
        ELSE [p |-> [p EXCEPT !.buffer = InputBuffer_clear(loaded)],
              continue_running |-> TRUE, some |-> TRUE, cmd |-> InputBuffer_to_string(loaded),
              said |-> "Executing: "]

\* no line was executed
NotExecuted == Executed("skipped", "", <<>>, <<>>, FALSE)

\* what parse_input did: the parser afterwards, the value it returned, and for
\* Enter the line committed, whether it went to history, whether it was taken
\* as a meta-command, what handle_hashtag said, and what executing a line did
Handled(p, cont, line, to_history, meta, said, ex) ==
    [p |-> p, continue_running |-> cont, line |-> line, pushed |-> to_history, meta |-> meta,
     said |-> said, ex |-> ex]

\* the Key::Enter arm of parse_input
parse_enter(p) ==
    LET skipped(q, cont, e, meta, said) ==
            Handled(q, cont, e.cmd, e.pushed, meta, said, NotExecuted)
        ran(q, e, meta, said, ex) ==
            Handled(IF ex.panic THEN [q EXCEPT !.panic = TRUE] ELSE render_buffer(q),
                    TRUE, e.cmd, e.pushed, meta, said, ex)
        \* the line to execute: the line entered, or the history entry of "#N"
        run(q, line, e, meta, said) == ran(q, e, meta, said, exec(line))
        hashtag(e, hh) ==
            IF ~hh.continue_running THEN skipped(hh.p, FALSE, e, TRUE, hh.said)
            ELSE IF hh.p.panic THEN skipped(hh.p, TRUE, e, TRUE, hh.said)
            ELSE skipped(render_buffer(hh.p), TRUE, e, TRUE, hh.said)
        entered(e, meta, hh) ==
            IF e.p.panic THEN skipped(e.p, TRUE, e, FALSE, "")
            ELSE IF e.cmd = <<>> THEN skipped(render_buffer(e.p), TRUE, e, FALSE, "")
            ELSE IF meta /\ ~(hh.continue_running /\ ~hh.p.panic /\ hh.some)
            THEN hashtag(e, hh)
            ELSE run(IF meta THEN hh.p ELSE e.p, IF meta THEN hh.cmd ELSE e.cmd, e, meta,
                     IF meta THEN hh.said ELSE "")
        committed(e) ==
            entered(e, e.cmd # <<>> /\ e.cmd[1] = ascii("#"), handle_hashtag(e.p, Tail(e.cmd)))
    IN  committed(handle_enter(p))

\* parse_input once read_key_fn has returned key (NoKey for None)
parse_input(p, key) ==
    LET plain(q) == Handled(q, TRUE, <<>>, FALSE, FALSE, "", NotExecuted)
        up   == handle_up(p.buffer, p.history)
        down == handle_down(p.buffer, p.history)
    IN  CASE key.k = "Char"       -> plain(handle_char(p, key.c))
          [] key.k = "Backspace"  -> plain(handle_backspace(p))
          [] key.k = "Enter"      -> parse_enter(p)
          [] key.k = "Tab"        -> plain(handle_tab(p, FALSE))
          [] key.k = "ShiftTab"   -> plain(handle_tab(p, TRUE))
          [] key.k = "ArrowUp"    ->
                plain(render_buffer([p EXCEPT !.buffer = up.buffer, !.history = up.history,
                                              !.signal = IF up.found THEN @ ELSE "bell"]))
          [] key.k = "ArrowDown"  ->
                plain(render_buffer([p EXCEPT !.buffer = down.buffer,
                                              !.history = down.history,
                                              !.signal = IF down.found THEN @ ELSE "bell"]))
          [] key.k = "ArrowLeft"  ->
                plain(render_buffer([p EXCEPT !.buffer = InputBuffer_move_left(p.buffer)]))
          [] key.k = "ArrowRight" ->
                plain(render_buffer([p EXCEPT !.buffer = InputBuffer_move_right(p.buffer)]))
          [] key.k = "Home"       ->
                plain(render_buffer([p EXCEPT !.buffer = InputBuffer_move_home(p.buffer)]))
          [] key.k = "End"        ->
                plain(render_buffer([p EXCEPT !.buffer = InputBuffer_move_end(p.buffer)]))
          [] key.k = "Delete"     ->
                plain(render_buffer([p EXCEPT !.buffer = InputBuffer_delete(p.buffer)[1]]))
          [] key.k = "CtrlU"      ->
                plain(render_buffer([p EXCEPT !.buffer = InputBuffer_delete_to_start(p.buffer)]))
          [] key.k = "CtrlK"      ->
                plain(render_buffer([p EXCEPT !.buffer = InputBuffer_delete_to_end(p.buffer)]))
          [] key.k = "CtrlD"      ->
                plain(IF p.buffer.length # 0
                      THEN render_buffer([p EXCEPT !.buffer = InputBuffer_clear(p.buffer)])
                      ELSE p)
          [] OTHER                -> plain(p)

-----------------------------------------------------------------------------
(* ShellCtx::step, one iteration of the loop of run_shell *)

\* the shell as one value: the parser, the key decoder, and the ShellCtx record
Shell(p, kp, sh) == [p |-> p, kp |-> kp, sh |-> sh]

\* what a step returns together with the shell it leaves: [shell, ret, key, did]
Stepped(s, ret, key, did) == [shell |-> s, ret |-> ret, key |-> key, did |-> did]

\* a variant of step whose key source reads pending_key without taking it
step_no_take(s, byte) ==
    LET parsed(d, key, r) ==
            Stepped(Shell([r.p EXCEPT !.panic = FALSE], d.kp,
                          [pending_key |-> key,
                           log     |-> s.sh.log \o r.ex.log,
                           calls   |-> s.sh.calls \o r.ex.calls,
                           halted  |-> r.p.panic,
                           exited  |-> s.sh.exited \/ ~r.continue_running,
                           late    |-> IF s.sh.exited THEN s.sh.late + 1 ELSE s.sh.late,
                           taken   |-> Append(s.sh.taken, byte),
                           decoded |-> IF d.key # NoKey THEN Append(s.sh.decoded, d.key)
                                       ELSE s.sh.decoded,
                           handled |-> IF key # NoKey THEN Append(s.sh.handled, key)
                                       ELSE s.sh.handled]),
                    r.continue_running, key, r)
        taking(d, key) == parsed(d, key, parse_input(s.p, key))
        decoded(d) == taking(d, IF d.key # NoKey THEN d.key ELSE s.sh.pending_key)
    IN  decoded(parse_byte(s.kp, byte))

\* step with the byte read_byte returned: the byte is decoded, a decoded key
\* becomes pending_key, and parse_input takes pending_key and handles it
step(s, byte) ==
    LET parsed(d, key, r) ==
            Stepped(Shell([r.p EXCEPT !.panic = FALSE], d.kp,
                          [pending_key |-> NoKey,
                           log     |-> s.sh.log \o r.ex.log,
                           calls   |-> s.sh.calls \o r.ex.calls,
                           halted  |-> r.p.panic,
                           exited  |-> s.sh.exited \/ ~r.continue_running,
                           late    |-> IF s.sh.exited THEN s.sh.late + 1 ELSE s.sh.late,
                           taken   |-> Append(s.sh.taken, byte),
                           decoded |-> IF d.key # NoKey THEN Append(s.sh.decoded, d.key)
                                       ELSE s.sh.decoded,
                           handled |-> IF key # NoKey THEN Append(s.sh.handled, key)
                                       ELSE s.sh.handled]),
                    r.continue_running, key, r)
        taking(d, key) == parsed(d, key, parse_input(s.p, key))
        decoded(d) == taking(d, IF d.key # NoKey THEN d.key ELSE s.sh.pending_key)
    IN  decoded(parse_byte(s.kp, byte))

-----------------------------------------------------------------------------
(* uart_hal and the USART2 interrupt handler of the RTIC application *)

\* bytes the RX queue holds before enqueue fails
RxQueueCap == 3

\* bytes the TX ring buffer holds before push_back fails
TxCap == 2

\* the interrupt request of USART2: a received byte is waiting, or the TX
\* interrupt is armed and the transmit register is empty
IsrPending(a, u) == a.rdr # <<>> \/ (u.txeie /\ u.txe)

\* a run of shell_task is scheduled or executing: spawn() returns Err then
Running(a) == a.spawned \/ a.pc # "idle"

\* the RX path of usart2_isr: the byte is enqueued (dropped when the queue is
\* full) and, unless shell_pending is set, it is set and spawn() is called, its
\* result dropped by ok(); spawn_err tells whether a spawn() returned Err
rx_path(a) ==
    IF a.rdr = <<>> THEN a
    ELSE LET fits == Len(a.rx_queue) < RxQueueCap
         IN  [a EXCEPT !.rdr = <<>>,
                       !.rx_queue = IF fits THEN Append(@, a.rdr[1]) ELSE @,
                       !.queued = IF fits THEN Append(@, a.rdr[1]) ELSE @,
                       !.shell_pending = TRUE,
                       !.spawned = IF ~a.shell_pending /\ ~Running(a) THEN TRUE ELSE @,
                       !.spawn_err = IF ~a.shell_pending /\ Running(a) THEN TRUE ELSE @]

\* handle_tx_ready: with the transmit register empty, the next byte of the ring
\* is written and the interrupt stays armed, or the ring is empty and the
\* interrupt is silenced
handle_tx_ready(u) ==
    IF ~u.txe THEN u
    ELSE IF u.tx_buffer # <<>>
    THEN [u EXCEPT !.tx_buffer = Tail(@), !.wire = Append(@, Head(u.tx_buffer)),
                   !.txe = FALSE, !.txeie = TRUE]
    ELSE [u EXCEPT !.txeie = FALSE]

\* one push_back of the loop of write_bytes: a full ring ends the loop
write_bytes_push(u) ==
    IF u.wr_bytes = <<>> \/ Len(u.tx_buffer) >= TxCap
    THEN [u EXCEPT !.wr_pc = "listen", !.wr_bytes = <<>>]
    ELSE [u EXCEPT !.tx_buffer = Append(@, Head(u.wr_bytes)),
                   !.accepted = Append(@, Head(u.wr_bytes)),
                   !.wr_bytes = Tail(@)]

\* the priorities of the tasks of the application
PrioShellTask == 1
PrioLedBlink == 2
PrioUsart2Isr == 3

\* the level inside critical_section::with: no interrupt is taken
AllMasked == PrioUsart2Isr + 1

\* the ceiling of rx_queue: the highest priority among the tasks that share it,
\* usart2_isr and shell_task
rx_queue_ceiling == IF PrioUsart2Isr > PrioShellTask THEN PrioUsart2Isr ELSE PrioShellTask

\* who calls write_bytes: the renderer and the output closure of step, inside
\* the lock of rx_queue that shell_task holds, and the logger, inside a
\* critical section, for shell_task and for led_blink
Writers ==
    {[task |-> "shell_task", prio |-> PrioShellTask, via |-> "step"],
     [task |-> "shell_task", prio |-> PrioShellTask, via |-> "log"],
     [task |-> "led_blink", prio |-> PrioLedBlink, via |-> "log"]}

\* a variant of the level of a writer: neither lock nor critical section
writer_level_bare(w) == w.prio

\* the level a writer runs at while it is inside write_bytes
writer_level(w) == IF w.via = "step" THEN rx_queue_ceiling ELSE AllMasked

\* usart2_isr is requested and nothing masks it: neither the lock of rx_queue
\* that shell_task holds while it drains, nor the level of a writer
IsrRuns(a, u) == IsrPending(a, u) /\ a.pc # "drain" /\ PrioUsart2Isr > u.wr_level

\* write_bytes has returned: the writer leaves its level, and a call it had
\* preempted goes on
write_bytes_return(u) ==
    IF u.saved = <<>> THEN [u EXCEPT !.wr_level = 0]
    ELSE [u EXCEPT !.wr_pc = u.saved[1].pc, !.wr_bytes = u.saved[1].bytes,
                   !.wr_level = u.saved[1].level, !.saved = <<>>]

\* a variant of the end of write_bytes that does not arm the interrupt
write_bytes_nolisten(u) == [u EXCEPT !.wr_pc = "idle"]

\* the end of write_bytes: uart_tx.listen()
write_bytes_listen(u) == [u EXCEPT !.txeie = TRUE, !.wr_pc = "idle"]

-----------------------------------------------------------------------------
(* Observers and initial state *)

NoOp == [op |-> "init", arg |-> <<>>, ret |-> FALSE, out |-> <<>>, after_push |-> FALSE]

\* after_push: the operation directly follows a successful push
Did(op, arg, ret, out) ==
    [op |-> op, arg |-> arg, ret |-> ret, out |-> out,
     after_push |-> (last.op = "push" /\ last.ret)]

\* ShellCtx::new, with the observers: the outcome messages logged, the handlers
\* invoked, whether a panic halted the program, whether a step has reported
\* stop and how many bytes were taken after that, and the bytes taken, the keys
\* decoded and the keys handled so far
ShellCtx_new ==
    [pending_key |-> NoKey, log |-> <<>>, calls |-> <<>>, halted |-> FALSE, exited |-> FALSE,
     late |-> 0, taken |-> <<>>, decoded |-> <<>>, handled |-> <<>>]

\* the application after init: shell_pending is true and shell_task is spawned;
\* input is what the terminal sends in all, script the bytes still to come, rdr
\* the receive data register, queued everything the byte source has handed over
App_init(flavour, script) ==
    [flavour |-> flavour, input |-> script, script |-> script, rdr |-> <<>>,
     rx_queue |-> <<>>, queued |-> <<>>, shell_pending |-> TRUE, spawned |-> TRUE,
     spawn_err |-> FALSE, pc |-> "idle"]

\* the statics of uart_hal before init_uart_globals and the transmitter: txeie
\* the TX interrupt enable, txe the transmit register empty flag, wire the bytes
\* written to the transmit register, accepted the bytes pushed into the ring,
\* wr_pc and wr_bytes the position of a write_bytes call under way, wr_level
\* the level its caller runs at (0 outside write_bytes), saved a call that the
\* call under way preempted
Uart_new ==
    [init |-> FALSE, tx_buffer |-> <<>>, txeie |-> FALSE, txe |-> TRUE, wire |-> <<>>,
     accepted |-> <<>>, wr_pc |-> "idle", wr_bytes |-> <<>>, wr_level |-> 0, saved |-> <<>>]

Init ==
    /\ buffer = InputBuffer_new
    /\ history = History_new
    /\ key_parser = [escape_buffer |-> <<>>, in_escape |-> FALSE]
    /\ autocomplete = Autocomplete_new(Commands)
    /\ pushed = <<>>
    /\ scen = [pure |-> TRUE, ups |-> 0, esc_age |-> 0]
    /\ last = NoOp
    /\ shell = ShellCtx_new
    /\ app = App_init("rtic", <<>>)
    /\ uart = Uart_new

-----------------------------------------------------------------------------
(* The line buffer alone: one action per InputBuffer operation *)

\* characters offered to the line buffer: an ASCII letter and a two-byte one
BufChars == {chr.a, chr.wide}

OverwriteInputs == SeqsUpTo(BufChars, IML + 1)

othersBuf == <<history, key_parser, autocomplete, pushed, scen, shell, app, uart>>

Insert ==
    \E ch \in BufChars :
        LET r == InputBuffer_insert(buffer, ch)
        IN  /\ buffer' = r[1]
            /\ last' = Did("insert", <<ch>>, r[2], <<>>)
            /\ UNCHANGED othersBuf

Backspace ==
    LET r == InputBuffer_backspace(buffer)
    IN  /\ buffer' = r[1]
        /\ last' = Did("backspace", <<>>, r[2], <<>>)
        /\ UNCHANGED othersBuf

Delete ==
    LET r == InputBuffer_delete(buffer)
    IN  /\ buffer' = r[1]
        /\ last' = Did("delete", <<>>, r[2], <<>>)
        /\ UNCHANGED othersBuf

MoveLeft ==
    /\ buffer' = InputBuffer_move_left(buffer)
    /\ last' = Did("move_left", <<>>, TRUE, <<>>)
    /\ UNCHANGED othersBuf

MoveRight ==
    /\ buffer' = InputBuffer_move_right(buffer)
    /\ last' = Did("move_right", <<>>, TRUE, <<>>)
    /\ UNCHANGED othersBuf

MoveHome ==
    /\ buffer' = InputBuffer_move_home(buffer)
    /\ last' = Did("move_home", <<>>, TRUE, <<>>)
    /\ UNCHANGED othersBuf

MoveEnd ==
    /\ buffer' = InputBuffer_move_end(buffer)
    /\ last' = Did("move_end", <<>>, TRUE, <<>>)
    /\ UNCHANGED othersBuf

DeleteToStart ==
    /\ buffer' = InputBuffer_delete_to_start(buffer)
    /\ last' = Did("delete_to_start", <<>>, TRUE, <<>>)
    /\ UNCHANGED othersBuf

DeleteToEnd ==
    /\ buffer' = InputBuffer_delete_to_end(buffer)
    /\ last' = Did("delete_to_end", <<>>, TRUE, <<>>)
    /\ UNCHANGED othersBuf

Overwrite ==
    \E input \in OverwriteInputs :
        /\ buffer' = InputBuffer_overwrite(buffer, input)
        /\ last' = Did("overwrite", input, TRUE, <<>>)
        /\ UNCHANGED othersBuf

Clear ==
    /\ buffer' = InputBuffer_clear(buffer)
    /\ last' = Did("clear", <<>>, TRUE, <<>>)
    /\ UNCHANGED othersBuf

NextBuf ==
    \/ Insert \/ Backspace \/ Delete \/ MoveLeft \/ MoveRight \/ MoveHome \/ MoveEnd
    \/ DeleteToStart \/ DeleteToEnd \/ Overwrite \/ Clear

SpecBuf == Init /\ [][NextBuf]_vars

\* C1: after every InputBuffer operation, starting from the empty buffer,
\* 0 <= cursor <= len <= IML.
C1_CursorLenBounds ==
    /\ 0 <= buffer.cursor_pos
    /\ buffer.cursor_pos <= buffer.length
    /\ buffer.length <= IML

\* an overwrite with more than IML bytes has truncated, the cursor sits at the end
C1_Witness ==
    /\ last.op = "overwrite"
    /\ str_len(last.arg) > IML
    /\ buffer.length = IML
    /\ buffer.cursor_pos = IML

-----------------------------------------------------------------------------
(* The history store with the Up / Down handlers *)

\* a line that needs exactly HTC bytes and one that needs HTC + 1
LongLines == {[i \in 1..(HTC - METADATA_SIZE) |-> chr.a],
              [i \in 1..(HTC - METADATA_SIZE + 1) |-> chr.a]}

\* lines offered to push: empty, blank, padded with blanks, with an inner blank
PushInputs ==
    {<<>>, <<chr.space>>, <<chr.a>>, <<chr.b>>, <<chr.a, chr.b>>, <<chr.space, chr.a, chr.space>>,
     <<chr.a, chr.space, chr.b>>} \cup LongLines

othersHist == <<key_parser, autocomplete, shell, app, uart>>

\* the retained pushes after n of the oldest were evicted
Drop(q, n) == SubSeq(q, n + 1, Len(q))

Push ==
    \E s \in PushInputs :
        LET r       == History_push(history, s)
            evicted == IF r[2] THEN history.entry_size + 1 - r[1].entry_size
                       ELSE history.entry_size - r[1].entry_size
        IN  /\ history' = r[1]
            /\ pushed' = IF r[2] THEN Append(Drop(pushed, evicted), trim(s))
                         ELSE Drop(pushed, evicted)
            /\ scen' = [scen EXCEPT !.pure = scen.pure /\ r[2] /\ evicted = 0,
                                    !.ups = 0]
            /\ last' = Did("push", s, r[2], <<evicted>>)
            /\ UNCHANGED <<buffer, othersHist>>

GetPrevEntry ==
    LET r == get_prev_entry(history)
    IN  /\ history' = r.h
        /\ scen' = [scen EXCEPT !.pure = FALSE, !.ups = 0]
        /\ last' = Did("prev", <<>>, r.found, r.bytes)
        /\ UNCHANGED <<buffer, pushed, othersHist>>

GetNextEntry ==
    LET r == get_next_entry(history)
    IN  /\ history' = r.h
        /\ scen' = [scen EXCEPT !.pure = FALSE, !.ups = 0]
        /\ last' = Did("next", <<>>, r.found, r.bytes)
        /\ UNCHANGED <<buffer, pushed, othersHist>>

SetIndex ==
    \E index \in 0..(history.entry_size + 1) :
        /\ history' = History_set_index(history, index)
        /\ scen' = [scen EXCEPT !.pure = FALSE, !.ups = 0]
        /\ last' = Did("set_index", <<index>>, index < history.entry_size, <<>>)
        /\ UNCHANGED <<buffer, pushed, othersHist>>

HistoryClear ==
    /\ history' = History_clear(history)
    /\ pushed' = <<>>
    /\ scen' = [scen EXCEPT !.pure = TRUE, !.ups = 0]
    /\ last' = Did("clear", <<>>, TRUE, <<>>)
    /\ UNCHANGED <<buffer, othersHist>>

HandleUp ==
    LET r == handle_up(buffer, history)
    IN  /\ buffer' = r.buffer
        /\ history' = r.history
        /\ scen' = [scen EXCEPT !.ups = IF scen.pure THEN Min(scen.ups + 1, MaxCount)
                                         ELSE 0]
        /\ last' = Did("up", <<>>, r.found, InputBuffer_to_string(r.buffer))
        /\ UNCHANGED <<pushed, othersHist>>

HandleDown ==
    LET r == handle_down(buffer, history)
    IN  /\ buffer' = r.buffer
        /\ history' = r.history
        /\ scen' = [scen EXCEPT !.pure = FALSE, !.ups = 0]
        /\ last' = Did("down", <<>>, r.found, InputBuffer_to_string(r.buffer))
        /\ UNCHANGED <<pushed, othersHist>>

\* the history store driven through its own interface
NextHist == Push \/ GetPrevEntry \/ GetNextEntry \/ SetIndex \/ HistoryClear

SpecHist == Init /\ [][NextHist]_vars

\* total bytes a sequence of entries occupies: the sum of 4 + len
RECURSIVE Occupied(_)
Occupied(q) == IF q = <<>> THEN 0 ELSE METADATA_SIZE + Len(Head(q)) + Occupied(Tail(q))

\* C2: walking from the oldest entry by each entry's leading length visits
\* entry_size entries and ends at data_head, and for_each_byte(i) yields the
\* trimmed bytes of the i-th oldest retained push.
C2_WalkAndReadout ==
    /\ walk(history, history.entry_oldest, history.entry_size) = history.data_head
    /\ \A i \in 0..(history.entry_size - 1) : for_each_byte(history, i).some
    /\ Len(pushed) = history.entry_size
    /\ \A i \in 1..Len(pushed) : for_each_byte(history, i - 1).bytes = pushed[i]

\* a push has evicted and the stored entries wrap around the end of the array
C2_Witness ==
    /\ last.op = "push" /\ last.ret /\ last.out[1] >= 1
    /\ history.entry_size >= 2
    /\ history.entry_oldest > 0
    /\ history.data_head <= history.entry_oldest

\* C3: no two stored history entries have identical content, and a push of
\* a line already stored anywhere is rejected.
C3_EntriesUnique ==
    /\ \A i, j \in 1..history.entry_size :
           i # j => for_each_byte(history, i - 1).bytes # for_each_byte(history, j - 1).bytes
    /\ (last.op = "push" /\ last.ret) =>
           \A i \in 1..(history.entry_size - 1) :
               for_each_byte(history, i - 1).bytes # trim(last.arg)

\* a push equal to the oldest of several stored entries was rejected
C3_Witness ==
    /\ last.op = "push" /\ ~last.ret
    /\ history.entry_size >= 2
    /\ for_each_byte(history, 0).bytes = trim(last.arg)

\* C25: a push that returns false leaves the history as it was: the same
\* entries in the same order, the same count and cursor index, nothing evicted
C25_RejectedPushFrame ==
    [][(last'.op = "push" /\ ~last'.ret)
           => /\ history' = history
              /\ Entries(history') = Entries(history)
              /\ last'.out = <<0>>]_vars

\* a line needing more than HTC bytes was rejected with an entry stored
C25_Witness ==
    /\ last.op = "push" /\ ~last.ret
    /\ entry_total_size(Len(trim(last.arg))) > HTC
    /\ history.entry_size >= 1 /\ history.current_index < history.entry_size

\* C4: the bytes occupied by the stored entries never exceed HTC and
\* get_free_space() is HTC minus that sum.
C4_FreeSpaceExact ==
    /\ Occupied(pushed) <= HTC
    /\ get_free_space(history) = HTC - Occupied(pushed)

\* two entries fill the array after an eviction: nothing is free
C4_Witness ==
    /\ last.op = "push" /\ last.ret /\ last.out[1] >= 1
    /\ history.entry_size = 2
    /\ get_free_space(history) = 0

\* C5: current_index < entry_size whenever entry_size > 0, and
\* current_index = 0 whenever entry_size = 0.
C5_CursorIndexInRange ==
    /\ history.entry_size > 0 => history.current_index < history.entry_size
    /\ history.entry_size = 0 => history.current_index = 0

\* set_index was refused an index beyond the entries kept after an eviction
C5_Witness ==
    /\ last.op = "set_index" /\ ~last.ret
    /\ history.entry_size >= 1
    /\ history.entry_oldest > 0
    /\ history.current_index < history.entry_size

\* room left for a push once the k oldest entries of q are gone
RoomAfter(q, k) == HTC - Occupied(Drop(q, k))

\* the least number of oldest entries of q to evict for `needed` bytes
MinEvict(q, needed) ==
    CHOOSE k \in 0..Len(q) :
        /\ RoomAfter(q, k) >= needed
        /\ \A j \in 0..(k - 1) : RoomAfter(q, j) < needed

\* C6: a successful push evicts the minimum number of oldest entries that
\* makes room for 4 + |bytes| and leaves the remaining entries unchanged in
\* content and order, the new entry last.
C6_MinimalEviction ==
    [][(last'.op = "push" /\ last'.ret /\ history' # history) =>
          LET before == Entries(history)
              bytes  == trim(last'.arg)
              k      == MinEvict(before, entry_total_size(Len(bytes)))
          IN  /\ last'.out = <<k>>
              /\ Entries(history') = Append(Drop(before, k), bytes)]_vars

\* one entry was evicted and an older one survived the push
C6_Witness ==
    /\ last.op = "push" /\ last.ret /\ last.out = <<1>>
    /\ history.entry_size = 2

\* C8: right after a successful push(x) current_index designates the newest
\* entry x, and a next() that follows moves to and yields the oldest entry.
C8_PushThenNext ==
    /\ (last.op = "push" /\ last.ret) =>
           /\ history.current_index = history.entry_size - 1
           /\ for_each_byte(history, history.current_index).bytes = trim(last.arg)
    /\ (last.op = "next" /\ last.after_push) =>
           /\ last.ret
           /\ history.current_index = 0
           /\ last.out = for_each_byte(history, 0).bytes
           /\ last.out = pushed[1]

\* next() right after a push into a history of several entries
C8_Witness ==
    /\ last.op = "next" /\ last.after_push
    /\ history.entry_size >= 2
    /\ history.current_index = 0

\* the history store driven by committed lines and the Up / Down keys
NextNav == Push \/ HistoryClear \/ HandleUp \/ HandleDown

SpecNav == Init /\ [][NextNav]_vars

\* the lines a shell can have committed fit the line buffer
LinesFitBuffer == \A i \in 1..Len(pushed) : Len(pushed[i]) <= IML

\* C7: after n distinct lines were pushed into an empty history, the k-th
\* consecutive Up loads the k-th newest line, and the (n+1)-th wraps to the
\* newest.
C7_UpNewestFirst ==
    (/\ last.op = "up"
     /\ scen.pure
     /\ LinesFitBuffer
     /\ Len(pushed) >= 1
     /\ scen.ups >= 1
     /\ scen.ups <= Len(pushed) + 1
     /\ scen.ups < MaxCount) =>
        LET n == Len(pushed)
            k == scen.ups
        IN  InputBuffer_to_string(buffer) = IF k <= n THEN pushed[n + 1 - k] ELSE pushed[n]

-----------------------------------------------------------------------------
(* The key decoder fed one byte at a time *)

\* ESC [ A 3 ~ a CR and a byte above 0x7F
KeyBytes == {ESC, 91, 65, 51, 126, 97, 13, 128}

ParseByte ==
    \E byte \in KeyBytes :
        LET r == parse_byte(key_parser, byte)
        IN  /\ key_parser' = r.kp
            /\ scen' = [scen EXCEPT !.esc_age =
                            IF byte = ESC \/ ~key_parser.in_escape THEN 0
                            ELSE Min(scen.esc_age + 1, MaxCount)]
            /\ last' = Did("parse_byte", <<byte>>, r.key # NoKey, <<r.key>>)
            /\ UNCHANGED <<buffer, history, autocomplete, pushed, shell, app, uart>>

NextKey == ParseByte

SpecKey == Init /\ [][NextKey]_vars

\* C9: three bytes after an ESC byte the decoder is back in Normal: an
\* escape buffer of length 4 that matches no pattern is discarded.
C9_EscapeEndsWithinThree ==
    scen.esc_age >= 3 => ~key_parser.in_escape

-----------------------------------------------------------------------------
(* The autocomplete engines fed whole prefixes *)

\* letters typed into the prefix: three that occur in the names and one that does not
InputChars == {chr.a, chr.l, chr.b, chr.x}

\* longest free-form prefix tried
MaxInputLen == 3

\* every proper extension of a name's prefix, the names followed by a blank,
\* short free-form prefixes, and a prefix longer than FNL
UpdateInputs ==
    SeqsUpTo(InputChars, MaxInputLen)
    \cup {SubSeq(Commands[i], 1, Min(n, Len(Commands[i]))) :
              i \in 1..Len(Commands), n \in 1..MaxLen(Commands)}
    \cup {Append(Commands[i], chr.space) : i \in 1..Len(Commands)}
    \cup {[i \in 1..(FNL + 1) |-> chr.a]}

InitAc ==
    /\ Init!1 /\ Init!2 /\ Init!3
    /\ autocomplete \in {Autocomplete_new_lazy, Autocomplete_new(Commands)}
    /\ Init!5 /\ Init!6 /\ Init!7 /\ Init!8 /\ Init!9 /\ Init!10

othersAc == <<buffer, history, key_parser, pushed, scen, shell, app, uart>>

UpdateInputLazy ==
    /\ autocomplete.lazy
    /\ \E new_input \in UpdateInputs :
           /\ autocomplete' = update_input_lazy(autocomplete, new_input)
           /\ last' = Did("update_input", new_input, TRUE, <<>>)
           /\ UNCHANGED othersAc

UpdateInput ==
    /\ ~autocomplete.lazy
    /\ \E new_input \in {u \in UpdateInputs : str_len(u) <= FNL} :
           /\ autocomplete' = update_input(autocomplete, new_input)
           /\ last' = Did("update_input", new_input, TRUE, <<>>)
           /\ UNCHANGED othersAc

CycleForward ==
    /\ autocomplete' = cycle_forward(autocomplete)
    /\ last' = Did("cycle_forward", <<>>, autocomplete.filtered # <<>>, <<>>)
    /\ UNCHANGED othersAc

CycleBackward ==
    /\ autocomplete' = cycle_backward(autocomplete)
    /\ last' = Did("cycle_backward", <<>>, autocomplete.filtered # <<>>, <<>>)
    /\ UNCHANGED othersAc

NextAc == UpdateInputLazy \/ UpdateInput \/ CycleForward \/ CycleBackward

SpecAc == InitAc /\ [][NextAc]_vars

\* x is a prefix of every string of F
IsCommonPrefix(x, F) == \A i \in 1..Len(F) : starts_with(F[i], x)

\* x is the longest common prefix of the non-empty list F
IsLongestCommonPrefix(x, F) ==
    /\ IsCommonPrefix(x, F)
    /\ \/ Len(x) = Len(F[1])
       \/ ~IsCommonPrefix(SubSeq(F[1], 1, Len(x) + 1), F)

\* C10: after update_input(p) with non-empty p every filtered entry starts
\* with p; a single filtered entry becomes the input followed by one space;
\* several filtered entries make the input their longest common prefix.
C10_FilterAndCompletion ==
    (last.op = "update_input" /\ last.arg # <<>>) =>
        LET F == autocomplete.filtered
        IN  /\ \A i \in 1..Len(F) : starts_with(F[i], last.arg)
            /\ Len(F) = 1 => autocomplete.input = Append(F[1], chr.space)
            /\ Len(F) > 1 => IsLongestCommonPrefix(autocomplete.input, F)

\* a prefix shared by two names was extended to their longest common prefix
C10_Witness ==
    /\ last.op = "update_input" /\ last.arg # <<>>
    /\ Len(autocomplete.filtered) > 1
    /\ Len(autocomplete.input) > Len(last.arg)

\* n calls of cycle_forward in a row
RECURSIVE CycleForwardTimes(_, _)
CycleForwardTimes(ac, n) ==
    IF n = 0 THEN ac ELSE CycleForwardTimes(cycle_forward(ac), n - 1)

\* C26: tab_index is below the length of the filtered list, and 0 when the list
\* is empty; cycle_forward and cycle_backward move it by +1 and -1 modulo that
\* length and make the input filtered[tab_index] followed by one space, so as
\* many cycle_forward calls as the list is long come back to the same index
C26_CycleIndex ==
    LET F == autocomplete.filtered
        n == Len(F)
        i == autocomplete.tab_index
    IN  /\ n = 0 => i = 0
        /\ n > 0 => i < n
        /\ n > 0 =>
               /\ cycle_forward(autocomplete).tab_index = (i + 1) % n
               /\ cycle_backward(autocomplete).tab_index = (i + n - 1) % n
               /\ CycleForwardTimes(autocomplete, n).tab_index = i
        /\ (last.op \in {"cycle_forward", "cycle_backward"} /\ last.ret)
               => autocomplete.input = Append(F[i + 1], chr.space)

\* cycle_forward has wrapped from the last of two candidates to the first
C26_Witness ==
    /\ last.op = "cycle_forward" /\ last.ret
    /\ Len(autocomplete.filtered) = 2 /\ autocomplete.tab_index = 0
    /\ autocomplete.input = Append(autocomplete.filtered[1], chr.space)

-----------------------------------------------------------------------------
(* The dispatchers alone: committed lines handed to dispatch and to exec *)

\* the most arguments a generated line carries; the token buffer of dispatch
\* holds 2 + MAX_ARITY tokens, so lines with more tokens than that occur
MaxArgs == 4

\* first tokens: the registered names and one that is not registered
FirstTokens ==
    {ENTRIES[i].name : i \in 1..Len(ENTRIES)} \cup {Str(<<"f", "o", "o">>)}

\* argument tokens: booleans, decimal and radix-prefixed integers, a word
ArgTokens ==
    {Str(<<"1">>), Str(<<"t", "r", "u", "e">>), Str(<<"x">>),
     Str(<<"0", "x", "F", "F">>), Str(<<"1", "0", "2", "4">>), Str(<<"-", "1">>)}

\* the tokens joined by single spaces
RECURSIVE Join(_)
Join(toks) ==
    IF toks = <<>> THEN <<>>
    ELSE IF Len(toks) = 1 THEN toks[1]
    ELSE toks[1] \o <<chr.space>> \o Join(Tail(toks))

\* command lines: a first token and up to MaxArgs argument tokens
CommandLines ==
    {Join(<<f>> \o args) : f \in FirstTokens, args \in SeqsUpTo(ArgTokens, MaxArgs)}

\* further lines: empty and blank ones, padded and quoted arguments, shortcuts
\* that are and are not in the table, and lines with a two-byte character
OtherLines ==
    {<<>>, Str(<<" ">>), Str(<<" ", "l", "e", "d", " ", " ", "1", " ">>),
     <<108, 101, 100, 32, 34, 49, 34>>,
     Str(<<"+", "l">>), Str(<<"+", "l", " ", "x">>), Str(<<"+", "+">>), Str(<<"-", "z">>),
     Str(<<"+">>), <<ascii("+"), chr.wide>>, <<chr.wide>>, <<chr.wide, chr.wide>>,
     <<ascii("."), ascii("."), chr.wide>>,
     Str(<<" ", "+", "+", " ", " ", "h", "e", "l", "l", "o", " ">>),
     Str(<<"+", "l", "x", " ", "y">>), <<9>> \o Str(<<"-", "t">>) \o <<9>> \o Str(<<"1">>) \o <<9>>}

Lines == CommandLines \cup OtherLines

\* the tokens of a line as a reader sees them: the maximal runs of non-blank
\* characters (none of the generated lines has a quote around a blank)
RECURSIVE Words(_, _)
Words(line, cur) ==
    IF line = <<>> THEN (IF cur = <<>> THEN <<>> ELSE <<cur>>)
    ELSE IF is_space(Head(line))
    THEN (IF cur = <<>> THEN <<>> ELSE <<cur>>) \o Words(Tail(line), <<>>)
    ELSE Words(Tail(line), Append(cur, Head(line)))

\* the line to be committed is drawn at the start
InitDispatch ==
    /\ Init!1 /\ Init!2 /\ Init!3 /\ Init!4 /\ Init!5 /\ Init!6
    /\ \E line \in Lines : last = [NoOp EXCEPT !.arg = line]
    /\ Init!8 /\ Init!9 /\ Init!10

\* commands::dispatch applied to the line
Dispatch ==
    /\ last.op = "init"
    /\ last' = Did("dispatch", last.arg, TRUE, dispatch(last.arg))
    /\ UNCHANGED <<buffer, history, key_parser, autocomplete, pushed, scen, shell, app, uart>>

\* the command execution closure applied to the line
Exec ==
    /\ last.op = "init"
    /\ last' = Did("exec", last.arg, TRUE, exec(last.arg))
    /\ UNCHANGED <<buffer, history, key_parser, autocomplete, pushed, scen, shell, app, uart>>

\* shortcuts::dispatch applied to the line
ShortcutsDispatch ==
    /\ last.op = "init"
    /\ last' = Did("shortcuts_dispatch", last.arg, TRUE, shortcuts_dispatch(last.arg))
    /\ UNCHANGED <<buffer, history, key_parser, autocomplete, pushed, scen, shell, app, uart>>

NextDispatch == Dispatch \/ Exec \/ ShortcutsDispatch

SpecDispatch == InitDispatch /\ [][NextDispatch]_vars

\* C14: committing the line read 0xFF 1024 against read(i8, u32) invokes the
\* handler with (-1, 1024): the i8 parser takes 0xFF as -1
C14_ReadHexFF ==
    (last.op = "dispatch" /\ last.arg = Join(<<Str(<<"r", "e", "a", "d">>),
                                                Str(<<"0", "x", "F", "F">>),
                                                Str(<<"1", "0", "2", "4">>)>>))
        => last.out.calls = <<[name |-> Str(<<"r", "e", "a", "d">>), args |-> <<-1, 1024>>]>>

\* C15: a line whose first token names a registered command and whose number of
\* remaining tokens differs from the arity of that command gets
\* WrongArity(expected=N), N the arity, and the handler is not invoked
C15_WrongArity ==
    LET toks == Words(last.arg, <<>>)
    IN  (/\ last.op = "dispatch"
         /\ toks # <<>>
         /\ find_entry(toks[1]) # 0
         /\ Len(toks) - 1 # arity_u8(ENTRIES[find_entry(toks[1])].spec))
        => /\ ~last.out.ok
           /\ last.out.err = "WrongArity(expected="
                             \o ToString(arity_u8(ENTRIES[find_entry(toks[1])].spec)) \o ")"
           /\ last.out.calls = <<>>

\* led alone was dispatched and gave WrongArity(expected=1)
C15_Witness ==
    /\ last.op = "dispatch"
    /\ last.arg = Str(<<"l", "e", "d">>)
    /\ last.out.err = "WrongArity(expected=1)"
    /\ last.out.calls = <<>>

\* C17: every line handed to the command or the shortcut dispatcher produces
\* exactly one logger message, Success or Error: <message>, and Success exactly
\* when the bound handler was invoked
C17_OneOutcomeMessage ==
    (last.op = "exec" /\ last.out.route \in {"shortcut", "command"})
        => /\ Len(last.out.log) = 1
           /\ last.out.log[1] \in {"Success", "Error: " \o last.out.err}
           /\ (last.out.log[1] = "Success") = (last.out.calls # <<>>)

\* positions i..j of x are x without the whitespace at its two ends
TrimSpan(x, i, j) ==
    /\ j >= i - 1
    /\ j >= i => (~is_whitespace(x[i]) /\ ~is_whitespace(x[j]))
    /\ \A k \in 1..Len(x) : (k < i \/ k > j) => is_whitespace(x[k])

\* y is x without the whitespace at its two ends
IsTrimOf(x, y) ==
    \E i \in 1..(Len(x) + 1) :
        /\ i + Len(y) - 1 <= Len(x)
        /\ SubSeq(x, i, i + Len(y) - 1) = y
        /\ TrimSpan(x, i, i + Len(y) - 1)

\* C28: for a line that, without the whitespace at its ends, starts with a
\* registered two-character key, the shortcut dispatcher returns Ok after one
\* handler invocation, that of the key, with the rest of the line without the
\* whitespace at its ends; the execution closure hands such a line to it
C28_ShortcutParameter ==
    last.op \in {"shortcuts_dispatch", "exec"} =>
        \A i, j \in 1..Len(last.arg) :
            (TrimSpan(last.arg, i, j) /\ j > i /\ SubSeq(last.arg, i, i + 1) \in ShortcutKeys)
                => /\ ~last.out.panic
                   /\ Len(last.out.calls) = 1
                   /\ last.out.calls[1].name = SubSeq(last.arg, i, i + 1)
                   /\ Len(last.out.calls[1].args) = 1
                   /\ IsTrimOf(SubSeq(last.arg, i + 2, j), last.out.calls[1].args[1])
                   /\ last.op = "shortcuts_dispatch" => last.out.ok
                   /\ last.op = "exec" => last.out.route = "shortcut"

\* ++ was dispatched with a parameter that had blanks on both sides
C28_Witness ==
    /\ last.op = "shortcuts_dispatch"
    /\ last.arg = Str(<<" ", "+", "+", " ", " ", "h", "e", "l", "l", "o", " ">>)
    /\ last.out.calls = <<[name |-> Str(<<"+", "+">>), args |-> <<Str(<<"h", "e", "l", "l", "o">>)>>]>>

\* all the tokens of a line: the tokeniser with room for every one of them
AllTokens(line) == tokenize(line, Len(line) + 1).toks

\* the position of the first argument that its descriptor character does not
\* parse, 0 when every argument parses
FirstBad(spec, args) ==
    LET bad == {i \in 1..Len(args) : ~parse_arg(spec[i], args[i]).ok}
    IN  IF bad = {} THEN 0 ELSE CHOOSE i \in bad : \A k \in bad : i <= k

\* the first check of tokenise, lookup, arity, argument parsing that the line
\* fails, as the message it is reported with; "" when it passes all of them
FirstFailure(line) ==
    LET unparsed(ent, args, i) ==
            IF i = 0 THEN "" ELSE parse_arg(ENTRIES[ent].spec[i], args[i]).err.kind
        known(ent, args) ==
            IF Len(args) # arity_u8(ENTRIES[ent].spec)
            THEN "WrongArity(expected=" \o ToString(arity_u8(ENTRIES[ent].spec)) \o ")"
            ELSE IF Len(args) = 0 THEN ""
            ELSE unparsed(ent, args, FirstBad(ENTRIES[ent].spec, args))
        named(toks, ent) ==
            IF ent = 0 THEN "UnknownFunction" ELSE known(ent, Tail(toks))
        tokens(toks) ==
            IF toks = <<>> THEN "Empty" ELSE named(toks, find_entry(toks[1]))
    IN  tokens(AllTokens(line))

\* C38: dispatch reports the first failure in the order tokenise, command
\* lookup, arity, argument parsing (the first unparsable argument in descriptor
\* order) and nothing else, and invokes the handler only when every check
\* passed, with as many parsed arguments as the command takes
C38_FirstFailureOnly ==
    LET holds(failure) ==
            /\ last.out.err = failure
            /\ last.out.ok = (failure = "")
            /\ (last.out.calls # <<>>) = (failure = "")
            /\ failure = ""
                   => /\ Len(last.out.calls) = 1
                      /\ last.out.calls[1].name = AllTokens(last.arg)[1]
                      /\ Len(last.out.calls[1].args) = Len(AllTokens(last.arg)) - 1
    IN  last.op = "dispatch" => holds(FirstFailure(last.arg))

\* read x x was dispatched: both arguments are unparsable, the i8 one is
\* reported and the handler is not invoked
C38_Witness ==
    /\ last.op = "dispatch"
    /\ last.arg = Join(<<Str(<<"r", "e", "a", "d">>), Str(<<"x">>), Str(<<"x">>)>>)
    /\ last.out.err = "BadSigned"
    /\ last.out.calls = <<>>

-----------------------------------------------------------------------------
(* The shell in both flavours: the loop of run_shell, and shell_task fed by
   usart2_isr *)

\* Input Maximum Length of the line buffer of the shell
ShellIML == 8

CR == 13

\* #c and #l, each followed by Enter
ClearAndList == Str(<<"#", "c">>) \o <<CR>> \o Str(<<"#", "l">>) \o <<CR>>

\* what the terminal sends: a command with its argument, an unknown command
\* followed by a key, the quit meta-command followed by a key, a shortcut, a
\* line of one two-byte character that arrives through an escape sequence, a
\* line followed by history indices beyond and within the history, and a
\* shortcut whose parameter is a two-byte character, followed by its index,
\* one character more than the line buffer holds, Enter on an empty line and
\* on a line of two spaces, the history cleared and listed after no, one and
\* two lines, and Tab after Left and Ctrl-K and after a history recall
Scripts ==
    {Str(<<"l", "e", "d", " ", "1">>) \o <<CR>>,
     Str(<<"f", "o", "o">>) \o <<CR>> \o Str(<<"x">>),
     Str(<<"#", "q">>) \o <<CR>> \o Str(<<"i">>),
     Str(<<"+", "l">>) \o <<CR>>,
     <<ESC, 91, chr.wide, CR>>,
     Str(<<"f", "o", "o">>) \o <<CR>> \o Str(<<"#", "1">>) \o <<CR>> \o Str(<<"#", "0">>)
         \o <<CR>>,
     Str(<<"+", "l", " ">>) \o <<ESC, 91, chr.wide, CR>> \o Str(<<"#", "0">>) \o <<CR>>,
     [i \in 1..(ShellIML + 1) |-> chr.x],
     <<CR>>,
     <<chr.space, chr.space, CR>>,
     ClearAndList,
     Str(<<"f", "o", "o">>) \o <<CR>> \o ClearAndList,
     Str(<<"x">>) \o <<CR>> \o Str(<<"i">>) \o <<CR>> \o Str(<<"#", "l">>) \o <<CR>>
         \o ClearAndList,
     Str(<<"x", "i">>) \o <<ESC, 91, 68, 11, 9>>,
     Str(<<"f", "o", "o">>) \o <<CR, ESC, 91, 65, 9>>,
     Str(<<"x">>) \o <<ESC, 91, 65>> \o Str(<<"i">>) \o <<ESC, 91, 66>>}

InitShell ==
    /\ buffer = InputBuffer_sized(ShellIML)
    /\ history = History_new
    /\ Init!3
    /\ autocomplete = Autocomplete_new(shell_commands)
    /\ Init!5 /\ Init!6 /\ Init!7 /\ Init!8
    /\ \E f \in {"run", "rtic"}, s \in Scripts : app = App_init(f, s)
    /\ Init!10

\* the shell the variables hold
TheShell == Shell(Parser(buffer, history, autocomplete), key_parser, shell)

\* a step of the shell on a byte, written back to the variables
DoStep(byte) ==
    LET written(r) ==
            /\ buffer' = r.shell.p.buffer
            /\ history' = r.shell.p.history
            /\ autocomplete' = r.shell.p.autocomplete
            /\ key_parser' = r.shell.kp
            /\ shell' = r.shell.sh
            /\ last' = Did("step", byte, r.ret,
                           [key |-> r.key, line |-> r.did.line, pushed |-> r.did.pushed,
                            meta |-> r.did.meta, said |-> r.did.said, ex |-> r.did.ex,
                            signal |-> r.shell.p.signal])
    IN  written(step(TheShell, byte))

\* one iteration of the loop of run_shell in which the reader has a byte; the
\* loop is left when parse_input returns false
RunShellIteration ==
    /\ app.flavour = "run" /\ ~shell.halted /\ ~shell.exited
    /\ app.script # <<>>
    /\ DoStep(Head(app.script))
    /\ app' = [app EXCEPT !.script = Tail(@), !.queued = Append(@, Head(app.script))]
    /\ UNCHANGED <<pushed, scen, uart>>

\* the terminal sends its next byte: it lands in the receive data register
ByteArrives ==
    /\ app.flavour = "rtic" /\ ~shell.halted
    /\ app.script # <<>> /\ app.rdr = <<>>
    /\ app' = [app EXCEPT !.rdr = <<Head(app.script)>>, !.script = Tail(@)]
    /\ UNCHANGED <<buffer, history, key_parser, autocomplete, pushed, scen, last, shell, uart>>

\* usart2_isr (priority 3): it runs as soon as it is requested, except while
\* shell_task holds the lock of rx_queue or a writer runs at a level that
\* masks it
Usart2Isr ==
    /\ app.flavour = "rtic" /\ ~shell.halted
    /\ IsrRuns(app, uart)
    /\ app' = rx_path(app)
    /\ uart' = handle_tx_ready(uart)
    /\ UNCHANGED <<buffer, history, key_parser, autocomplete, pushed, scen, last, shell>>

\* shell_task (priority 1) starts: the one-time init_uart_globals, then the
\* lock of rx_queue is taken
ShellTaskStart ==
    /\ app.flavour = "rtic" /\ ~shell.halted
    /\ app.spawned /\ app.pc = "idle" /\ ~IsrPending(app, uart)
    /\ app' = [app EXCEPT !.spawned = FALSE, !.pc = "drain"]
    /\ uart' = [uart EXCEPT !.init = TRUE]
    /\ UNCHANGED <<buffer, history, key_parser, autocomplete, pushed, scen, last, shell>>

\* one turn of the drain loop: the queue is not empty and step takes a byte;
\* a step that returns false leaves the loop and the lock
ShellTaskStep ==
    /\ app.flavour = "rtic" /\ ~shell.halted
    /\ app.pc = "drain" /\ app.rx_queue # <<>>
    /\ DoStep(Head(app.rx_queue))
    /\ app' = [app EXCEPT !.rx_queue = Tail(@),
                          !.pc = IF last'.ret THEN "drain" ELSE "release"]
    /\ UNCHANGED <<pushed, scen, uart>>

\* the drain loop finds the queue empty and the lock of rx_queue is released
ShellTaskDrained ==
    /\ app.flavour = "rtic" /\ ~shell.halted
    /\ app.pc = "drain" /\ app.rx_queue = <<>>
    /\ app' = [app EXCEPT !.pc = "release"]
    /\ UNCHANGED <<buffer, history, key_parser, autocomplete, pushed, scen, last, shell, uart>>

\* shell_pending is locked and set to false
ShellTaskRelease ==
    /\ app.flavour = "rtic" /\ ~shell.halted
    /\ app.pc = "release" /\ ~IsrPending(app, uart)
    /\ app' = [app EXCEPT !.shell_pending = FALSE, !.pc = "return"]
    /\ UNCHANGED <<buffer, history, key_parser, autocomplete, pushed, scen, last, shell, uart>>

\* shell_task returns: its run is over
ShellTaskReturn ==
    /\ app.flavour = "rtic" /\ ~shell.halted
    /\ app.pc = "return" /\ ~IsrPending(app, uart)
    /\ app' = [app EXCEPT !.pc = "idle"]
    /\ UNCHANGED <<buffer, history, key_parser, autocomplete, pushed, scen, last, shell, uart>>

NextShell ==
    \/ RunShellIteration
    \/ ByteArrives
    \/ Usart2Isr
    \/ ShellTaskStart
    \/ ShellTaskStep
    \/ ShellTaskDrained
    \/ ShellTaskRelease
    \/ ShellTaskReturn

SpecShell == InitShell /\ [][NextShell]_vars

\* C11: every byte the ISR enqueues is consumed by a step of shell_task even if
\* no further byte arrives: while the RX queue holds a byte, a run of shell_task
\* is under way or requested (the shell has neither exited nor halted)
C11_EnqueuedByteGetsARun ==
    (app.flavour = "rtic" /\ app.rx_queue # <<>> /\ ~shell.exited /\ ~shell.halted)
        => (app.spawned \/ app.pc # "idle")

\* AnsiKeyParser::new
AnsiKeyParser_new == [escape_buffer |-> <<>>, in_escape |-> FALSE]

\* the keys the decoder yields for a run of bytes, in order
RECURSIVE KeysOf(_, _)
KeysOf(kp, bytes) ==
    IF bytes = <<>> THEN <<>>
    ELSE LET d == parse_byte(kp, Head(bytes))
         IN  (IF d.key # NoKey THEN <<d.key>> ELSE <<>>) \o KeysOf(d.kp, Tail(bytes))

\* C12: keys are handled in the order their bytes arrived, one at a time: the
\* bytes taken are the bytes the byte source was handed, in order, none skipped
\* and none twice; the keys handled are the keys of those bytes, each handled
\* once in the step that decoded it, so that none is pending between steps; and
\* the dispatch an Enter starts is over when the step ends, its outcome logged
\* before the next byte is taken
C12_KeysInArrivalOrder ==
    /\ shell.taken \o (IF app.flavour = "rtic" THEN app.rx_queue ELSE <<>>) = app.queued
    /\ shell.decoded = KeysOf(AnsiKeyParser_new, shell.taken)
    /\ shell.handled = shell.decoded
    /\ shell.pending_key = NoKey
    /\ last.op = "step" =>
          /\ last.arg = shell.taken[Len(shell.taken)]
          /\ SubSeq(shell.log, Len(shell.log) - Len(last.out.ex.log) + 1, Len(shell.log))
                = last.out.ex.log

\* an escape sequence of three bytes was taken and gave one key, and a line
\* was dispatched by the step that took its Enter
C12_Witness ==
    /\ Len(shell.taken) = 4 /\ shell.taken[1] = ESC
    /\ Len(shell.handled) = 2
    /\ last.op = "step" /\ last.out.key = KeyOf("Enter")

\* C13: with led(bool) registered, the bytes l, e, d, space, 1, CR invoke the
\* led handler exactly once with true and the logger emits Success
C13_Led1 ==
    (/\ app.input = Str(<<"l", "e", "d", " ", "1">>) \o <<CR>>
     /\ shell.taken = app.input)
        => /\ shell.calls = <<[name |-> Str(<<"l", "e", "d">>), args |-> <<TRUE>>]>>
           /\ \E i \in 1..Len(shell.log) : shell.log[i] = "Success"

\* C16: a line whose first token is not a registered command yields
\* Error: UnknownFunction, and after this or any other dispatcher error the shell
\* keeps running: the step reports continue, the line buffer is empty, and the
\* shell has neither halted nor left its loop
C16_ErrorsAreRecoverable ==
    last.op = "step" =>
        /\ (/\ last.out.ex.route = "command"
            /\ Words(last.out.line, <<>>) # <<>>
            /\ last.out.line[1] # ascii("#")
            /\ find_entry(Words(last.out.line, <<>>)[1]) = 0)
                => last.out.ex.log = <<"Error: UnknownFunction">>
        /\ last.out.ex.err # ""
                => /\ last.ret
                   /\ last.out.ex.log = <<"Error: " \o last.out.ex.err>>
                   /\ buffer.length = 0 /\ buffer.cursor_pos = 0
                   /\ ~shell.halted /\ ~shell.exited

\* foo was answered with Error: UnknownFunction and the key typed after it was
\* handled as usual
C16_Witness ==
    /\ shell.log = <<"Error: UnknownFunction">>
    /\ Len(shell.handled) = 5
    /\ InputBuffer_to_string(buffer) = Str(<<"x">>)

\* whether a line is one is_shortcut accepts: its first character after
\* trimming is one of the shortcut prefixes
AcceptedAsShortcut(line) == trim(line) # <<>> /\ trim(line)[1] \in ShortcutPrefixes

\* C18: on Enter with a non-empty line, a line starting with # is handled only
\* as a meta-command and is not pushed to history; any other line is pushed to
\* history and then routed to exactly one dispatcher, the shortcut dispatcher if
\* is_shortcut accepts it and the command dispatcher otherwise
C18_EnterRouting ==
    (last.op = "step" /\ last.out.key = KeyOf("Enter") /\ last.out.line # <<>>)
        => IF last.out.line[1] = ascii("#")
           THEN last.out.meta /\ ~last.out.pushed
           ELSE /\ ~last.out.meta /\ last.out.pushed
                /\ last.out.ex.route =
                      (IF AcceptedAsShortcut(last.out.line) THEN "shortcut" ELSE "command")

\* C19: the shell loop ends exactly when the line #q is committed: a step reports
\* stop exactly when it commits #q, and no byte is taken, decoded, edited or
\* dispatched after a step has reported stop, in both flavours
C19_QuitEndsTheLoop ==
    /\ last.op = "step" =>
          (~last.ret) = (last.out.key = KeyOf("Enter") /\ last.out.line = Str(<<"#", "q">>))
    /\ shell.late = 0

\* str::from_utf8: the characters a run of UTF-8 bytes encodes
RECURSIVE from_utf8(_)
from_utf8(bytes) ==
    IF bytes = <<>> THEN <<>>
    ELSE IF Head(bytes) < 128 \/ Len(bytes) = 1
    THEN <<Head(bytes)>> \o from_utf8(Tail(bytes))
    ELSE <<(Head(bytes) - 192) * 64 + (bytes[2] - 128)>> \o from_utf8(Tail(Tail(bytes)))

\* the line is # followed by decimal digits only
IsHistoryIndex(line) ==
    /\ Len(line) >= 2 /\ line[1] = ascii("#")
    /\ \A i \in 2..Len(line) : line[i] \in 48..57

\* the number the decimal digits spell
RECURSIVE DecimalValue(_)
DecimalValue(digits) ==
    IF digits = <<>> THEN 0
    ELSE 10 * DecimalValue(SubSeq(digits, 1, Len(digits) - 1)) + (digits[Len(digits)] - 48)

\* C27: committing #N with N below the history count executes the line stored
\* as entry N, with the outcome executing that line has; with N at or above the
\* count nothing is executed and Invalid history index. is written
C27_HistoryIndexExecutes ==
    (last.op = "step" /\ last.out.key = KeyOf("Enter") /\ IsHistoryIndex(last.out.line))
        => LET N == DecimalValue(Tail(last.out.line))
           IN  IF N < history.entry_size
               THEN last.out.ex = exec(from_utf8(Entries(history)[N + 1]))
               ELSE /\ last.out.ex = NotExecuted
                    /\ last.out.said = "Invalid history index."

\* C29: a character typed when the line buffer holds IML characters leaves the
\* content, the length and the cursor of the buffer as they were, and the
\* shell emits the boundary marker and logs nothing
C29_FullBufferRejectsChar ==
    [][(/\ Len(shell'.taken) = Len(shell.taken) + 1
        /\ last'.op = "step" /\ last'.out.key.k = "Char"
        /\ buffer.length = capacity(buffer))
           => /\ InputBuffer_to_string(buffer') = InputBuffer_to_string(buffer)
              /\ buffer'.length = buffer.length
              /\ buffer'.cursor_pos = buffer.cursor_pos
              /\ last'.out.signal = "boundary_marker"
              /\ last'.out.ex.log = <<>> /\ shell'.log = shell.log
              /\ ~shell'.halted]_vars

\* one character more than the buffer holds was typed and the marker emitted
C29_Witness ==
    /\ last.op = "step" /\ last.out.key = [k |-> "Char", c |-> chr.x]
    /\ Len(shell.taken) = ShellIML + 1
    /\ buffer.length = ShellIML
    /\ last.out.signal = "boundary_marker"

-----------------------------------------------------------------------------
(* The TX side: write_bytes against usart2_isr and the transmitter *)

\* the most bytes the writers hand over in all
MaxTx == 3

\* what a call of write_bytes is given
TxInputs == SeqsUpTo({chr.a, chr.b}, 2) \ {<<>>}

InitTx ==
    /\ Init!1 /\ Init!2 /\ Init!3 /\ Init!4 /\ Init!5 /\ Init!6 /\ Init!7 /\ Init!8
    /\ app = App_init("rtic", <<chr.x>>)
    /\ Init!10

\* init_uart_globals, the one-time block of shell_task
InitUartGlobals ==
    /\ ~uart.init
    /\ uart' = [uart EXCEPT !.init = TRUE]
    /\ UNCHANGED <<buffer, history, key_parser, autocomplete, pushed, scen, last, shell, app>>

\* a writer calls write_bytes, when no call is under way or when its task
\* preempts the level of the call under way; before init_uart_globals the call
\* returns at once
WriteBytesCall ==
    \E bytes \in TxInputs, w \in Writers :
        /\ ~IsrRuns(app, uart)
        /\ uart.wr_pc = "idle" \/ (w.prio > uart.wr_level /\ uart.saved = <<>>)
        /\ Len(uart.accepted) + Len(uart.wr_bytes) + Len(bytes) <= MaxTx
        /\ uart' = IF uart.init
                   THEN [uart EXCEPT !.wr_pc = "push", !.wr_bytes = bytes,
                                     !.wr_level = writer_level(w),
                                     !.saved = IF uart.wr_pc = "idle" THEN <<>>
                                               ELSE <<[pc |-> uart.wr_pc,
                                                       bytes |-> uart.wr_bytes,
                                                       level |-> uart.wr_level]>>]
                   ELSE uart
        /\ last' = Did("write_bytes", bytes, uart.init, <<w.task, w.via>>)
        /\ UNCHANGED <<buffer, history, key_parser, autocomplete, pushed, scen, shell, app>>

\* the loop of write_bytes advances by one push_back
WriteBytesPush ==
    /\ uart.wr_pc = "push" /\ ~IsrRuns(app, uart)
    /\ uart' = write_bytes_push(uart)
    /\ UNCHANGED <<buffer, history, key_parser, autocomplete, pushed, scen, last, shell, app>>

\* write_bytes arms the TX interrupt and returns
WriteBytesListen ==
    /\ uart.wr_pc = "listen" /\ ~IsrRuns(app, uart)
    /\ uart' = write_bytes_return(write_bytes_listen(uart))
    /\ UNCHANGED <<buffer, history, key_parser, autocomplete, pushed, scen, last, shell, app>>

\* the transmitter has shifted the byte out: the transmit register is empty
TxComplete ==
    /\ ~uart.txe
    /\ uart' = [uart EXCEPT !.txe = TRUE]
    /\ UNCHANGED <<buffer, history, key_parser, autocomplete, pushed, scen, last, shell, app>>

NextTx ==
    \/ InitUartGlobals
    \/ WriteBytesCall
    \/ WriteBytesPush
    \/ WriteBytesListen
    \/ ByteArrives
    \/ Usart2Isr
    \/ TxComplete

\* the interrupt is serviced, the transmitter finishes, and the task that is
\* inside write_bytes goes on running once no interrupt is pending
SpecTx ==
    /\ InitTx /\ [][NextTx]_vars
    /\ WF_vars(Usart2Isr) /\ WF_vars(TxComplete)
    /\ WF_vars(WriteBytesPush) /\ WF_vars(WriteBytesListen)

\* C20 as stated: once the UART globals are initialised, whenever the TX ring
\* buffer is non-empty the TX interrupt is armed
C20_ArmedWheneverNonEmpty ==
    (uart.init /\ uart.tx_buffer # <<>>) => uart.txeie

\* the ring is non-empty, no write_bytes call is between its first push_back
\* and its listen(), and so the interrupt is armed
TxArmed ==
    (uart.init /\ uart.tx_buffer # <<>> /\ uart.wr_pc = "idle") => uart.txeie

\* the bytes written to the transmit register followed by the bytes in the ring
\* are the bytes accepted, in the order they were accepted
TxFifo == uart.wire \o uart.tx_buffer = uart.accepted

\* the interrupt is disarmed only by the ISR finding the ring empty
TxDisarm ==
    (uart.txeie /\ ~uart'.txeie) => (uart.tx_buffer = <<>> /\ uart.txe /\ uart' = handle_tx_ready(uart))

\* C20: once the UART globals are initialised, whenever the TX ring buffer is
\* non-empty and no write_bytes call is still on its way to listen(), the TX
\* interrupt is armed; every byte accepted into the ring is eventually written
\* to the transmit register, in FIFO order; and the interrupt is disarmed only
\* when the ISR finds the ring empty
C20_TxDrains ==
    /\ [](TxArmed /\ TxFifo)
    /\ [][TxDisarm]_vars
    /\ \A k \in 1..MaxTx : (Len(uart.accepted) >= k) ~> (Len(uart.wire) >= k)

\* MaxTx bytes were accepted, all of them were written in order, and the ISR
\* then found the ring empty and disarmed the interrupt
C20_Witness ==
    /\ uart.init /\ Len(uart.accepted) = MaxTx
    /\ uart.wire = uart.accepted /\ uart.tx_buffer = <<>>
    /\ ~uart.txeie /\ uart.wr_pc = "idle"

\* C35: a write_bytes call under way is preempted neither by usart2_isr, which
\* pops from the same ring, nor by another write_bytes call
C35_WriteBytesNotPreempted ==
    [][(Usart2Isr \/ WriteBytesCall) => uart.wr_pc = "idle"]_vars

\* led_blink's log line is being pushed while usart2_isr is requested: the
\* interrupt waits for the critical section to end
C35_Witness ==
    /\ uart.wr_pc = "push" /\ uart.tx_buffer # <<>>
    /\ last.op = "write_bytes" /\ last.out = <<"led_blink", "log">>
    /\ IsrPending(app, uart) /\ uart.wr_level = AllMasked

-----------------------------------------------------------------------------
(* The async byte source: AsyncReader::read_byte of the runner, as shell_task
   of the Embassy application configures it *)

\* the largest yield_threshold the reader is configured with
MaxThreshold == 3

\* bytes the UART RX task sends into the channel in all
MaxSent == 3

\* no byte: what try_read_fn returns when the channel is empty
NoByte == [some |-> FALSE, byte |-> 0]

SomeByte(b) == [some |-> TRUE, byte |-> b]

\* AsyncReader::new; awaiting tells that read_byte is suspended at the await
AsyncReader_new(threshold) ==
    [empty_count |-> 0, yield_threshold |-> threshold, awaiting |-> FALSE]

\* read_byte up to its return or its await, with what try_read_fn returned
read_byte_poll(r, got) ==
    IF got.some THEN [r EXCEPT !.empty_count = 0]
    ELSE [r EXCEPT !.empty_count = @ + 1,
                   !.awaiting = r.empty_count + 1 >= r.yield_threshold]

\* a variant of the resumption that leaves the counter as it is
read_byte_resume_keep(r) == [r EXCEPT !.awaiting = FALSE]

\* read_byte once the yield future has completed
read_byte_resume(r) == [r EXCEPT !.empty_count = 0, !.awaiting = FALSE]

\* the Embassy application around the reader: the RX channel, the bytes sent
\* so far, and the observers: the empty polls in a row since the last byte or
\* completed suspension, and the suspensions
AsyncApp_init(threshold) ==
    [flavour |-> "async", reader |-> AsyncReader_new(threshold), channel |-> <<>>,
     sent |-> 0, polls |-> 0, yields |-> 0]

InitReader ==
    /\ Init!1 /\ Init!2 /\ Init!3 /\ Init!4 /\ Init!5 /\ Init!6 /\ Init!7 /\ Init!8
    /\ \E threshold \in 1..MaxThreshold : app = AsyncApp_init(threshold)
    /\ Init!10

othersReader == <<buffer, history, key_parser, autocomplete, pushed, scen, shell, uart>>

\* the UART RX task puts a received byte into the channel
ChannelSend ==
    \E b \in {chr.a, chr.b} :
        /\ app.sent < MaxSent
        /\ app' = [app EXCEPT !.channel = Append(@, b), !.sent = @ + 1]
        /\ UNCHANGED <<last>> /\ UNCHANGED othersReader

\* read_byte is called and try_receive returns a byte
ReadByteSome ==
    /\ ~app.reader.awaiting /\ app.channel # <<>>
    /\ app' = [app EXCEPT !.reader = read_byte_poll(@, SomeByte(Head(app.channel))),
                          !.channel = Tail(@), !.polls = 0]
    /\ last' = Did("read_byte", <<>>, TRUE, <<Head(app.channel)>>)
    /\ UNCHANGED othersReader

\* read_byte is called and the channel is empty: it returns None or suspends
ReadByteNone ==
    /\ ~app.reader.awaiting /\ app.channel = <<>>
    /\ app' = [app EXCEPT !.reader = read_byte_poll(@, NoByte), !.polls = @ + 1]
    /\ last' = Did("read_byte", <<>>, FALSE, <<>>)
    /\ UNCHANGED othersReader

\* the yield future completes and read_byte returns None
ReadByteResume ==
    /\ app.reader.awaiting
    /\ app' = [app EXCEPT !.reader = read_byte_resume(@), !.polls = 0,
                          !.yields = IF @ < MaxThreshold THEN @ + 1 ELSE @]
    /\ last' = Did("resume", <<>>, FALSE, <<>>)
    /\ UNCHANGED othersReader

NextReader == ChannelSend \/ ReadByteSome \/ ReadByteNone \/ ReadByteResume

SpecReader == InitReader /\ [][NextReader]_vars

\* C21: the reader is suspended exactly when the empty polls in a row have
\* reached the threshold, so there are never more than threshold of them without
\* a suspension; a received byte and a completed suspension leave the
\* consecutive-miss counter at zero
C21_YieldAtThreshold ==
    /\ app.polls <= app.reader.yield_threshold
    /\ app.reader.awaiting <=> app.polls = app.reader.yield_threshold
    /\ (last.op = "read_byte" /\ last.ret) => app.reader.empty_count = 0
    /\ last.op = "resume" => app.reader.empty_count = 0

\* a second suspension has completed with a threshold of two, after a byte
C21_Witness ==
    /\ app.reader.yield_threshold = 2 /\ app.yields = 2
    /\ last.op = "resume" /\ app.sent > 0 /\ app.channel = <<>>

-----------------------------------------------------------------------------
(* The key decoder fed across separate reads: the top of the loop of run_shell
   and of ShellCtx::step *)

\* the longest byte stream the terminal sends
MaxStream == 4

\* empty polls in a row between two bytes
MaxEmptyPolls == 1

\* ESC [ A 3 ~ a
StreamBytes == {ESC, 91, 65, 51, 126, chr.a}

\* a variant that starts the decoder afresh on an empty read
read_and_decode_afresh(kp, got) ==
    IF got.some THEN parse_byte(kp, got.byte) ELSE [kp |-> AnsiKeyParser_new, key |-> NoKey]

\* if let Some(byte) = reader.read_byte() { key_parser.parse_byte(byte) }: [kp, key]
read_and_decode(kp, got) ==
    IF got.some THEN parse_byte(kp, got.byte) ELSE [kp |-> kp, key |-> NoKey]

\* the stream the terminal sends, what is left of it, the bytes read so far, the
\* keys decoded so far, the empty reads since the last byte, and whether an
\* empty read has come in the middle of an escape sequence
InitSplit ==
    /\ Init!1 /\ Init!2 /\ Init!3 /\ Init!4 /\ Init!5 /\ Init!6 /\ Init!7 /\ Init!8
    /\ \E stream \in SeqsUpTo(StreamBytes, MaxStream) :
           app = [flavour |-> "split", stream |-> stream, rest |-> stream, fed |-> <<>>,
                  keys |-> <<>>, polls |-> 0, split_escape |-> FALSE]
    /\ Init!10

othersSplit == <<buffer, history, autocomplete, pushed, scen, shell, uart>>

\* the read returns the next byte of the stream
ReadSome ==
    /\ app.rest # <<>>
    /\ key_parser' = read_and_decode(key_parser, SomeByte(Head(app.rest))).kp
    /\ app' = [app EXCEPT
                   !.rest = Tail(@), !.fed = Append(@, Head(app.rest)), !.polls = 0,
                   !.keys = LET key == read_and_decode(key_parser, SomeByte(Head(app.rest))).key
                            IN  IF key # NoKey THEN Append(@, key) ELSE @]
    /\ last' = Did("read", <<Head(app.rest)>>, TRUE, <<>>)
    /\ UNCHANGED othersSplit

\* the read returns None: the rest of the stream has not arrived yet
ReadNone ==
    /\ app.polls < MaxEmptyPolls
    /\ key_parser' = read_and_decode(key_parser, NoByte).kp
    /\ app' = [app EXCEPT
                   !.polls = @ + 1,
                   !.split_escape = @ \/ key_parser.in_escape,
                   !.keys = LET key == read_and_decode(key_parser, NoByte).key
                            IN  IF key # NoKey THEN Append(@, key) ELSE @]
    /\ last' = Did("read", <<>>, FALSE, <<>>)
    /\ UNCHANGED othersSplit

NextSplit == ReadSome \/ ReadNone

SpecSplit == InitSplit /\ [][NextSplit]_vars

\* C22: however the stream is split into reads, with empty reads in between, the
\* keys decoded from the bytes read so far are the keys the decoder yields when
\* it is fed those bytes in one piece
C22_SplitAnywhere ==
    /\ app.keys = KeysOf(AnsiKeyParser_new, app.fed)
    /\ app.rest = <<>> => app.keys = KeysOf(AnsiKeyParser_new, app.stream)

\* ESC [ 3 ~ has been read with an empty read in the middle of it
C22_Witness ==
    /\ app.stream = <<ESC, 91, 51, 126>> /\ app.rest = <<>>
    /\ app.split_escape /\ app.keys = <<KeyOf("Delete")>>

-----------------------------------------------------------------------------
(* The tokenizer alone: tokenize of the command dispatcher on bounded lines *)

\* the longest line drawn
MaxLine == 5

\* a token buffer smaller than the one dispatch passes
SmallCap == 2

\* space, tab, double quote, a, b
LineChars == {chr.space, 9, 34, chr.a, chr.b}

\* write "my file" 10 0xAB
WriteMyFile ==
    Str(<<"w", "r", "i", "t", "e", " ">>) \o <<34>> \o Str(<<"m", "y", " ", "f", "i", "l", "e">>)
    \o <<34>> \o Str(<<" ", "1", "0", " ", "0", "x", "A", "B">>)

TokLines == SeqsUpTo(LineChars, MaxLine) \cup {WriteMyFile}

\* the line and the token buffer size are drawn; nothing is tokenized yet
InitTok ==
    /\ Init!1 /\ Init!2 /\ Init!3 /\ Init!4 /\ Init!5 /\ Init!6
    /\ \E line \in TokLines, cap \in {SmallCap, 2 + MAX_ARITY} :
           last = [NoOp EXCEPT !.arg = line, !.out = [cap |-> cap]]
    /\ Init!8 /\ Init!9 /\ Init!10

othersTok == <<buffer, history, key_parser, autocomplete, pushed, scen, shell, app, uart>>

\* tokenize(line, out) with out of cap entries
Tokenize ==
    /\ last.op = "init"
    /\ last' = [last EXCEPT !.op = "tokenize", !.ret = tokenize(last.arg, last.out.cap).ok,
                            !.out = [cap |-> last.out.cap,
                                     toks |-> tokenize(last.arg, last.out.cap).toks]]
    /\ UNCHANGED othersTok

\* the tokens are joined by single spaces and the joined line is tokenized
Retokenize ==
    /\ last.op = "tokenize"
    /\ last' = [last EXCEPT !.op = "retokenize",
                            !.ret = tokenize(Join(last.out.toks), last.out.cap).ok,
                            !.out = [cap |-> last.out.cap, toks |-> last.out.toks,
                                     again |-> tokenize(Join(last.out.toks), last.out.cap).toks]]
    /\ UNCHANGED othersTok

NextTok == Tokenize \/ Retokenize

SpecTok == InitTok /\ [][NextTok]_vars

Contains(line, c) == \E i \in 1..Len(line) : line[i] = c

\* C23: for a line without double quotes and tabs, the tokens joined by single
\* spaces tokenize to the same tokens again
C23_TokenizeRoundTrip ==
    (last.op = "retokenize" /\ ~Contains(last.arg, 34) /\ ~Contains(last.arg, 9))
        => /\ last.out.again = last.out.toks
           /\ last.ret = (last.out.toks # <<>>)

\* a line of two words between runs of spaces has gone round
C23_Witness ==
    /\ last.op = "retokenize"
    /\ last.arg = <<chr.space, chr.a, chr.space, chr.space, chr.b>>
    /\ last.out.again = <<(<<chr.a>>), (<<chr.b>>)>>

\* the first index from i on where the line holds c, or one past its end
IndexFrom(line, i, c) ==
    IF \E j \in i..Len(line) : line[j] = c
    THEN CHOOSE j \in i..Len(line) : line[j] = c /\ \A k \in i..(j - 1) : line[k] # c
    ELSE Len(line) + 1

\* the first index from i on where the line holds a space or tab, or one past
FirstSpaceFrom(line, i) ==
    IF \E j \in i..Len(line) : is_space(line[j])
    THEN CHOOSE j \in i..Len(line) :
             is_space(line[j]) /\ \A k \in i..(j - 1) : ~is_space(line[k])
    ELSE Len(line) + 1

\* with a double quote at q opening a token, the tokens of the line are the
\* tokens before q, the bytes between q and the next double quote (or the end of
\* the line), and the tokens from the first space after that double quote on
QuotedAt(line, q, toks) ==
    LET close  == IndexFrom(line, q + 1, 34)
        resume == FirstSpaceFrom(line, close)
        before == tokenize(SubSeq(line, 1, q - 1), Len(line) + 1).toks
        behind == tokenize(SubSeq(line, resume, Len(line)), Len(line) + 1).toks
    IN  toks = before \o <<SubSeq(line, q + 1, close - 1)>> \o behind

\* C24: a double quote that opens a token (at the start of the line or after a
\* space, no double quote before it) takes the bytes up to the next double quote
\* or the end of the line as one token, spaces included, and the bytes after the
\* closing quote up to the next space are dropped; write "my file" 10 0xAB gives
\* write, my file, 10, 0xAB
C24_QuotedToken ==
    (last.op = "tokenize" /\ Len(last.out.toks) < last.out.cap)
        => /\ \A q \in 1..Len(last.arg) :
                  (/\ last.arg[q] = 34
                   /\ ~Contains(SubSeq(last.arg, 1, q - 1), 34)
                   /\ (q = 1 \/ is_space(last.arg[q - 1])))
                      => QuotedAt(last.arg, q, last.out.toks)
           /\ last.arg = WriteMyFile
                  => last.out.toks = <<Str(<<"w", "r", "i", "t", "e">>),
                                       Str(<<"m", "y", " ", "f", "i", "l", "e">>),
                                       Str(<<"1", "0">>), Str(<<"0", "x", "A", "B">>)>>

\* a quoted token with a space inside, and a byte dropped after the closing quote
C24_Witness ==
    /\ last.op = "tokenize" /\ last.out.cap = 2 + MAX_ARITY
    /\ last.arg = <<34, chr.a, chr.space, 34, chr.b>>
    /\ last.out.toks = << <<chr.a, chr.space>> >>

\* C31: Enter on a line that yields no tokens, empty or of spaces only, is a
\* no-op: nothing is pushed to history, no handler is invoked and no Success
\* or Error message is logged
C31_BlankEnterNoOp ==
    [][(/\ Len(shell'.taken) = Len(shell.taken) + 1
        /\ last'.op = "step" /\ last'.out.key = KeyOf("Enter")
        /\ \A i \in 1..Len(last'.out.line) : last'.out.line[i] = chr.space)
           => /\ history' = history
              /\ shell'.calls = shell.calls
              /\ shell'.log = shell.log]_vars

\* s ends with suffix
EndsWith(s, suffix) ==
    Len(suffix) <= Len(s) /\ SubSeq(s, Len(s) - Len(suffix) + 1, Len(s)) = suffix

\* the last two lines the shell took were #c and #l, typed from an empty line
ClearedThenListed ==
    shell.taken = ClearAndList \/ EndsWith(shell.taken, <<CR>> \o ClearAndList)

\* C33: once #c is committed the history holds no entries, whatever it held
\* before, and #l committed right after it prints History is empty.
C33_ClearThenList ==
    (last.op = "step" /\ last.out.key = KeyOf("Enter")) =>
        /\ last.out.line = Str(<<"#", "c">>)
               => history.entry_size = 0 /\ Entries(history) = <<>>
        /\ (last.out.line = Str(<<"#", "l">>) /\ ClearedThenListed)
               => last.out.said = "History is empty."

\* two lines were committed and listed, then the history was cleared and listed
C33_Witness ==
    /\ last.op = "step" /\ last.out.line = Str(<<"#", "l">>)
    /\ ClearedThenListed
    /\ Len(shell.calls) = 0 /\ Len(shell.log) = 2
    /\ last.out.said = "History is empty."

\* C34: in the interrupt-driven flavour shell_pending is true only while a run
\* of shell_task is scheduled or executing, and no spawn() of the ISR fails
C34_PendingOnlyWhileRunning ==
    app.flavour = "rtic" =>
        /\ app.shell_pending => Running(app)
        /\ ~app.spawn_err

\* no registered command name starts with the line
MatchesNoCommand(line) ==
    \A i \in 1..Len(shell_commands) : ~starts_with(shell_commands[i], line)

\* C36: Tab or Shift-Tab on a line that no registered command name starts with
\* leaves the line as it is, however the line came about
C36_TabWithoutMatch ==
    [][(/\ Len(shell'.taken) = Len(shell.taken) + 1
        /\ last'.op = "step" /\ last'.out.key \in {KeyOf("Tab"), KeyOf("ShiftTab")}
        /\ MatchesNoCommand(InputBuffer_to_string(buffer)))
           => InputBuffer_to_string(buffer') = InputBuffer_to_string(buffer)]_vars

\* C37: Up or Down while the history is empty only rings the bell: the text on
\* the line and the cursor position stay as they were
C37_ArrowOnEmptyHistory ==
    [][(/\ Len(shell'.taken) = Len(shell.taken) + 1
        /\ last'.op = "step"
        /\ last'.out.key \in {KeyOf("ArrowUp"), KeyOf("ArrowDown")}
        /\ history.entry_size = 0)
           => /\ last'.out.signal = "bell"
              /\ InputBuffer_to_string(buffer') = InputBuffer_to_string(buffer)
              /\ buffer'.cursor_pos = buffer.cursor_pos]_vars

-----------------------------------------------------------------------------
(* The parser with the commands alpha and alpine: keys handed to parse_input *)

\* keys fed to the parser
MaxKeys == 6

\* the candidates InputParser::new collects from a table of alpha and alpine
AlphaAlpine == SubSeq(Commands, 1, 2)

\* the keys typed: the letters a, l, h and Tab
TypedChars == {chr.a, chr.l, chr.h}

InitComplete ==
    /\ buffer = InputBuffer_sized(ShellIML)
    /\ Init!2 /\ Init!3
    /\ autocomplete = Autocomplete_new(AlphaAlpine)
    /\ Init!5 /\ Init!6 /\ Init!7 /\ Init!8
    /\ app = [flavour |-> "complete", fed |-> <<>>, halted |-> FALSE]
    /\ Init!10

\* parse_input with the key the reader returned, written back to the variables
Feed(key) ==
    LET written(r) ==
            /\ buffer' = r.p.buffer
            /\ history' = r.p.history
            /\ autocomplete' = r.p.autocomplete
            /\ app' = [app EXCEPT !.fed = Append(@, key), !.halted = r.p.panic]
            /\ last' = Did("parse_input", key, r.continue_running, [signal |-> r.p.signal])
    IN  /\ app.flavour = "complete" /\ ~app.halted
        /\ Len(app.fed) < MaxKeys
        /\ written(parse_input(Parser(buffer, history, autocomplete), key))
        /\ UNCHANGED <<key_parser, pushed, scen, shell, uart>>

FeedChar == \E c \in TypedChars : Feed(CharKey(c))

FeedTab == Feed(KeyOf("Tab"))

NextComplete == FeedChar \/ FeedTab

SpecComplete == InitComplete /\ [][NextComplete]_vars

-----------------------------------------------------------------------------
(* The key decoder in the Normal state: single bytes and whole sequences *)

\* the values of a u8
U8 == 0..255

\* what arrives at a decoder in the Normal state: any single byte, ESC [ and
\* any third byte, or ESC [ n ~ for a digit n
Units ==
    {<<b>> : b \in U8}
    \cup {<<ESC, 91, x>> : x \in U8}
    \cup {<<ESC, 91, n, 126>> : n \in 48..57}

\* the decoder after construction, about to receive a unit
InitTable ==
    /\ Init!1 /\ Init!2 /\ Init!3 /\ Init!4 /\ Init!5 /\ Init!6 /\ Init!7 /\ Init!8
    /\ \E u \in Units : app = [flavour |-> "table", unit |-> u, rest |-> u, keys |-> <<>>]
    /\ Init!10

othersTable == <<buffer, history, autocomplete, pushed, scen, shell, uart>>

\* parse_byte on the next byte of the unit; keys holds what each byte yielded
DecodeByte ==
    LET decoded(r) ==
            /\ key_parser' = r.kp
            /\ app' = [app EXCEPT !.rest = Tail(@), !.keys = Append(@, r.key)]
            /\ last' = Did("parse_byte", <<Head(app.rest)>>, r.key # NoKey, <<r.key>>)
    IN  /\ app.flavour = "table" /\ app.rest # <<>>
        /\ decoded(parse_byte(key_parser, Head(app.rest)))
        /\ UNCHANGED othersTable

\* the unit is through and the decoder is in Normal: another unit arrives
NextUnit ==
    /\ app.flavour = "table" /\ app.rest = <<>> /\ ~key_parser.in_escape
    /\ \E u \in Units : app' = [app EXCEPT !.unit = u, !.rest = u, !.keys = <<>>]
    /\ UNCHANGED <<key_parser, last>>
    /\ UNCHANGED othersTable

NextTable == DecodeByte \/ NextUnit

SpecTable == InitTable /\ [][NextTable]_vars

\* the decoder table for single bytes, as far as it is stated
TableKey(b) ==
    CASE b \in {13, 10}        -> KeyOf("Enter")
      [] b = 9                 -> KeyOf("Tab")
      [] b \in {127, 8}        -> KeyOf("Backspace")
      [] b = 21                -> KeyOf("CtrlU")
      [] b = 11                -> KeyOf("CtrlK")
      [] b = 4                 -> KeyOf("CtrlD")
      [] b >= 32 /\ b <= 126   -> CharKey(b)

\* the key of ESC [ X for X one of A B C D H F Z
LetterKey(x) ==
    CASE x = ascii("A") -> KeyOf("ArrowUp")
      [] x = ascii("B") -> KeyOf("ArrowDown")
      [] x = ascii("C") -> KeyOf("ArrowRight")
      [] x = ascii("D") -> KeyOf("ArrowLeft")
      [] x = ascii("H") -> KeyOf("Home")
      [] x = ascii("F") -> KeyOf("End")
      [] x = ascii("Z") -> KeyOf("ShiftTab")

\* the key of ESC [ n ~ for n from 1 to 6
TildeKey(n) ==
    <<KeyOf("Home"), KeyOf("Insert"), KeyOf("Delete"), KeyOf("End"), KeyOf("PageUp"),
      KeyOf("PageDown")>>[n]

StatedBytes == {13, 10, 9, 127, 8, 21, 11, 4} \cup 32..126

Letters == {ascii("A"), ascii("B"), ascii("C"), ascii("D"), ascii("H"), ascii("F"), ascii("Z")}

\* C32: in the Normal state a byte of the decoder table yields its key; ESC [ X
\* for X one of A B C D H F Z and ESC [ n ~ for n from 1 to 6 yield nothing on
\* the earlier bytes and their key on the final byte, and the decoder is in
\* Normal afterwards
C32_DecoderTable ==
    LET u == app.unit
        done == app.rest = <<>>
        quiet == \A i \in 1..Len(app.keys) : i < Len(u) => app.keys[i] = NoKey
        normal == key_parser = AnsiKeyParser_new
    IN  app.flavour = "table" =>
            /\ (Len(u) = 1 /\ u[1] \in StatedBytes /\ done)
                   => app.keys = <<TableKey(u[1])>> /\ normal
            /\ (Len(u) = 3 /\ u[3] \in Letters)
                   => quiet /\ (done => app.keys[3] = LetterKey(u[3]) /\ normal)
            /\ (Len(u) = 4 /\ u[3] - 48 \in 1..6)
                   => quiet /\ (done => app.keys[4] = TildeKey(u[3] - 48) /\ normal)

\* ESC [ 3 ~ went through a decoder that had decoded a unit before
C32_Witness ==
    /\ app.flavour = "table" /\ app.unit = <<ESC, 91, 51, 126>> /\ app.rest = <<>>
    /\ app.keys = <<NoKey, NoKey, NoKey, KeyOf("Delete")>>
    /\ last.arg = <<126>>

\* C39: every Char key the decoder emits carries a printable ASCII character,
\* whether its byte arrived in the Normal state or as the third byte of ESC [
C39_CharIsPrintable ==
    app.flavour = "table" =>
        \A i \in 1..Len(app.keys) :
            app.keys[i].k = "Char" => (app.keys[i].c >= 32 /\ app.keys[i].c < 127)

=============================================================================
